---- MODULE Spec2Model ----
(***************************************************************************)
(* A model of the web crawler of system-design/web-crawler: the URL        *)
(* frontier, the robots.txt cache, the storage layer and the orchestrator  *)
(* with its worker coroutines.  The crawler runs on one asyncio event      *)
(* loop: a coroutine runs without interruption until it awaits real I/O    *)
(* (a database call, an HTTP request, a sleep, a contended lock), so every *)
(* action below is the code between two such suspension points.            *)
(***************************************************************************)
EXTENDS Integers, Sequences, FiniteSets, TLC

(***************************************************************************)
(* Bounds of the model and configuration values.                           *)
(***************************************************************************)
\* config.max_concurrent_requests: the number of worker coroutines
NumWorkers == 2
\* config.max_depth
MaxDepth == 1
\* config.max_pages
MaxPages == 2
\* the last instant of the clock (seconds)
MaxClock == 1
\* how many answers of the outside world (robots.txt, page fetch, parse,
\* storage write) may differ from the plain successful one in a run
MaxDeviations == 1
\* how often add_url may be called again with a URL it has just admitted
MaxAdds == 2
\* how many store_page calls are made in a run of the storage layer
MaxStores == 3
\* how many half days the clock of the robots cache runs
MaxHalfDays == 3
\* how many times the frontier may be constructed anew on the same database
MaxRestarts == 1
\* config.request_delay (seconds)
RequestDelay == 1
\* RobotsHandler.cache_expiry, 24 hours in seconds
CacheExpiry == 86400
\* the seed priority given by WebCrawler.crawl
SeedPriority == 100

Workers == 1..NumWorkers

(***************************************************************************)
(* The web the crawler walks: URLs, their hosts, and the links each page   *)
(* holds (already resolved, normalised and de-duplicated by the parser).   *)
(***************************************************************************)
\* A1#f is a1 spelled with an upper-case host and a fragment
URL == {"a1", "a2", "b1", "b2", "A1#f"}
Domain == {"a", "b"}

\* urlparse: the network location, the path with parameters and query, and
\* the fragment of a URL
Parts(u) ==
    CASE u = "a1"   -> [netloc |-> "a", path |-> "1", fragment |-> ""]
      [] u = "a2"   -> [netloc |-> "a", path |-> "2", fragment |-> ""]
      [] u = "b1"   -> [netloc |-> "b", path |-> "1", fragment |-> ""]
      [] u = "b2"   -> [netloc |-> "b", path |-> "2", fragment |-> ""]
      [] u = "A1#f" -> [netloc |-> "A", path |-> "1", fragment |-> "f"]

\* str.lower on a network location
Lower(netloc) ==
    CASE netloc = "A" -> "a"
      [] netloc = "B" -> "b"
      [] OTHER -> netloc

\* urlunparse
Unparse(parts) == CHOOSE u \in URL : Parts(u) = parts

\* Parser._normalize_url: the host in lower case, the fragment removed
NormalizeUrl(u) ==
    Unparse([netloc |-> Lower(Parts(u).netloc), path |-> Parts(u).path,
             fragment |-> ""])

\* UrlFrontier._extract_domain: the lower-cased network location of the URL
DomainOf(u) == Lower(Parts(u).netloc)

\* the anchors of the page served at u, in document order and resolved
\* against the page: the page at b1 holds ten links to two distinct URLs
HrefsOf(u) ==
    CASE u \in {"a1", "A1#f"} -> <<"a2", "b1">>
      [] u = "b1" -> <<"a2", "a1", "a2", "A1#f", "a1", "a2", "a1", "A1#f",
                       "a2", "a1">>
      [] u = "a2" -> <<"b2", "a1">>
      [] OTHER    -> << >>

\* the loop of Parser._extract_links: each link is normalised and kept the
\* first time only
RECURSIVE ExtractFrom(_, _)
ExtractFrom(hrefs, kept) ==
    IF hrefs = << >> THEN kept
    ELSE LET normalized_url == NormalizeUrl(Head(hrefs)) IN
         ExtractFrom(Tail(hrefs),
                     IF \E i \in 1..Len(kept) : kept[i] = normalized_url
                     THEN kept
                     ELSE Append(kept, normalized_url))

\* Parser._extract_links on every page of the web
ExtractedLinks == [u \in URL |-> ExtractFrom(HrefsOf(u), << >>)]

\* Parser._extract_links on the page served at u
LinksOf(u) == ExtractedLinks[u]

SeedLists == { <<"a1", "b1">>, <<"b1", "a1", "b1">> }

None == -1
NoInfo == [url |-> "", depth |-> 0, priority |-> 0]

VARIABLES
    clock,
    \* UrlFrontier
    seen_urls, domain_queues, dom_order, last_access_time, total_urls,
    domain_locks, lock_waiters, db,
    \* RobotsHandler
    cache, respect_robots_txt, robots_seen, rcall, rret,
    \* Fetcher: its counters and the fetch calls in progress
    fetcher, fcall,
    \* WebCrawler
    is_running, pages_crawled, pages_stored, stats,
    \* worker coroutines
    pc, cur, wnow, scan, links, mark_ok,
    \* Storage
    rows, files, duplicate_content, total_stored, db_lock, db_waiters,
    \* the store_page calls in progress, and what the finished ones did
    store_pc, call, writes, store_log,
    \* observation of the run (not program state)
    appended, returned, marks, deviations,
    \* the caller of the frontier API: the results of the add_url calls made
    \* for a URL since it was new, the URLs handed out and not yet marked,
    \* the number of restarts
    add_log, handed, restarts,
    \* CrawlerConfig.max_pages of the crawler under test
    max_pages,
    \* the URL shortener of system-design/short-url: the clock in
    \* milliseconds, the IDGenerator, the url_mappings table, the requests
    \* in progress, the responses given, and a Base62Converter computation
    now_ms, id_generator, url_mappings, req, responses, b62,
    \* the other programs checked on their own: a Parser._normalize_url
    \* computation; the crawl() calls made on one WebCrawler and the worker
    \* tasks each of them started
    norm, crawls, pool,
    \* the SnowflakeGenerator of system-design/distributed-id: the generator,
    \* the clock in milliseconds, the generate_id calls in progress, the IDs
    \* returned in the order of their return, and the calls that raised
    snowflake, time_ms, snow_call, generated_ids, clock_errors,
    \* the KafkaNotificationConsumer of system-design/notification-service:
    \* the KafkaConsumer's position and the group's committed offset in the
    \* one partition of the topic, the message of the loop, what the handler
    \* did with each message so far, and the number of consumers started
    consumer, message, handler_log, consumers_started,
    \* the BaseNotificationWorker of the same service: the rows of the
    \* notifications table, and the latest call of the message handler
    notifications, last_handled

frontierVars == <<seen_urls, domain_queues, dom_order, last_access_time,
                  total_urls, domain_locks, lock_waiters, db>>
crawlerVars == <<is_running, pages_crawled, pages_stored, stats>>
workerVars == <<pc, cur, wnow, scan, links, mark_ok>>
storageVars == <<rows, files, duplicate_content, total_stored, db_lock,
                 db_waiters, store_pc, call, writes, store_log>>
obsVars == <<appended, returned, marks>>
envVars == <<deviations>>
apiVars == <<add_log, handed, restarts>>
\* RobotsHandler: the configuration flag, the last answer to a robots.txt
\* request per domain, and the calls of its API in progress and returned
robotsVars == <<respect_robots_txt, robots_seen, rcall, rret>>
fetchVars == <<fetcher, fcall>>
configVars == <<max_pages>>
shortVars == <<now_ms, id_generator, url_mappings, req, responses, b62>>
snowVars == <<snowflake, time_ms, snow_call, generated_ids, clock_errors>>
kafkaVars == <<consumer, message, handler_log, consumers_started>>
notifyVars == <<notifications, last_handled>>
serviceVars == <<snowVars, kafkaVars, notifyVars>>
otherVars == <<norm, crawls, pool, serviceVars>>
vars == <<clock, frontierVars, cache, robotsVars, fetchVars, crawlerVars,
          workerVars, storageVars, obsVars, envVars, apiVars, configVars,
          shortVars, otherVars>>

(***************************************************************************)
(* UrlFrontier: pure helpers.                                              *)
(***************************************************************************)
NoRecord == [status |-> "none", depth |-> 0, priority |-> 0]

\* UrlFrontier._persist_url: INSERT OR IGNORE, status defaults to 'pending'
PersistUrl(store, info) ==
    IF store[info.url].status # "none" THEN store
    ELSE [store EXCEPT ![info.url] = [status |-> "pending", depth |-> info.depth,
                                      priority |-> info.priority]]

\* UrlFrontier._update_url_status: UPDATE ... WHERE url = ? (no row, no effect)
UpdateUrlStatus(store, u, status) ==
    IF store[u].status = "none" THEN store
    ELSE [store EXCEPT ![u].status = status]

\* A plausible slip: deciding "seen" from the durable table, which add_url
\* only writes after its suspension point.
AlreadySeenInDb(u, seen) == db[u].status # "none"

\* A plausible slip: the membership test dropped
NeverSeen(u, seen) == FALSE

\* add_url: `if url in self.seen_urls: return False`
AlreadySeen(u, seen) == u \in seen

\* get_next_url: `time_since_last < request_delay` skips the domain
PoliteAt(d, now) ==
    \/ last_access_time[d] = None
    \/ now - last_access_time[d] >= RequestDelay

\* get_next_url: the first domain, at or after position i of the dict order,
\* with a non-empty queue whose politeness window has passed (0: none)
RECURSIVE NextEligible(_, _)
NextEligible(i, now) ==
    IF i > Len(dom_order) THEN 0
    ELSE IF domain_queues[dom_order[i]] # << >> /\ PoliteAt(dom_order[i], now)
         THEN i
         ELSE NextEligible(i + 1, now)

\* defaultdict(deque): the first use of a domain creates its key
WithDomain(order, d) ==
    IF \E i \in 1..Len(order) : order[i] = d THEN order ELSE Append(order, d)

\* WebCrawler._add_discovered_links: priority=max(0, 100 - depth * 10)
LinkPriority(depth) ==
    IF SeedPriority - depth * 10 > 0 THEN SeedPriority - depth * 10 ELSE 0

\* A plausible slip: an off-by-one in the depth guard
DepthAdmitsInclusive(info) == info.depth <= MaxDepth

\* WebCrawler._process_url: `if url_info.depth < self.config.max_depth`
DepthAdmits(info) == info.depth < MaxDepth

\* add_url returns False without suspending for a URL already seen, so the
\* loop of _add_discovered_links runs on to the first link it must persist
RECURSIVE DropSeen(_)
DropSeen(ls) ==
    IF ls = << >> THEN << >>
    ELSE IF AlreadySeen(Head(ls), seen_urls) THEN DropSeen(Tail(ls))
    ELSE ls

\* The in-memory frontier as one value, so that several add_url calls can be
\* chained inside one step (app counts the queue appends per URL)
FS == [seen |-> seen_urls, queues |-> domain_queues, order |-> dom_order,
       total |-> total_urls, app |-> appended]

SetFS(fs) ==
    /\ seen_urls' = fs.seen
    /\ domain_queues' = fs.queues
    /\ dom_order' = fs.order
    /\ total_urls' = fs.total
    /\ appended' = fs.app

\* UrlFrontier.is_empty
IsEmpty == total_urls = 0

\* an append that forgets the counter
AdmitUncounted(fs, info) ==
    LET d == DomainOf(info.url) IN
    [seen   |-> fs.seen \cup {info.url},
     queues |-> [fs.queues EXCEPT ![d] = Append(@, info)],
     order  |-> WithDomain(fs.order, d),
     total  |-> fs.total,
     app    |-> [fs.app EXCEPT ![info.url] = @ + 1]]

\* add_url, the block under global_lock: seen-set insert and queue append
Admit(fs, info) ==
    LET d == DomainOf(info.url) IN
    [seen   |-> fs.seen \cup {info.url},
     queues |-> [fs.queues EXCEPT ![d] = Append(@, info)],
     order  |-> WithDomain(fs.order, d),
     total  |-> fs.total + 1,
     app    |-> [fs.app EXCEPT ![info.url] = @ + 1]]

\* add_url run to completion with nothing interleaved: check, admit, persist
AddUrl(st, info) ==
    IF AlreadySeen(info.url, st.fs.seen) THEN st
    ELSE [fs |-> Admit(st.fs, info), store |-> PersistUrl(st.store, info)]

\* WebCrawler.crawl: the seeds are added one after another, each at depth 0
\* with priority 100, before any worker exists
RECURSIVE AddSeeds(_, _)
AddSeeds(st, seeds) ==
    IF seeds = << >> THEN st
    ELSE AddSeeds(AddUrl(st, [url |-> Head(seeds), depth |-> 0,
                              priority |-> SeedPriority]),
                  Tail(seeds))

(***************************************************************************)
(* Storage: pure helpers.                                                  *)
(***************************************************************************)
NoFile == ""
NoPath == << >>
\* the crawled_pages table as created: its rows are kept in rowid order
NoRows == << >>

\* the body the server returns for each URL: a1 and b1 are mirrors
BodyOf(u) == IF u \in {"a1", "b1", "A1#f"} THEN "x" ELSE "y"

\* Storage._hash_content / _hash_url: digests, compared only for equality
HashContent(content) == <<"sha256", content>>
HashUrl(u) == <<"sha256_16", u>>

\* Storage._store_content_file: content/<url_hash>.html
ContentPath(u) == <<"content", HashUrl(u)>>

\* A plausible slip: the duplicate lookup never matching
NeverDuplicate(rws, h) == FALSE

\* Storage._is_duplicate_content: SELECT 1 ... WHERE content_hash = ?
IsDuplicateContent(rws, h) ==
    \E i \in 1..Len(rws) : rws[i].content_hash = h

\* the rows of the table that hold the URL u
RowsOf(rws, u) == SelectSeq(rws, LAMBDA r : r.url = u)

\* the row _store_in_database writes
NewRow(page, path) ==
    [url |-> page.url, content_hash |-> HashContent(page.content),
     content_file_path |-> path]

\* A plausible slip: a plain INSERT into a table without the UNIQUE url
InsertOnly(rws, page, path) == Append(rws, NewRow(page, path))

\* Storage._store_in_database: INSERT OR REPLACE on the table whose url
\* column is UNIQUE: the row that holds the url is deleted and the new row
\* gets the next rowid
StoreInDatabase(rws, page, path) ==
    Append(SelectSeq(rws, LAMBDA r : r.url # page.url), NewRow(page, path))

\* Storage._store_content_file: open(..., 'w') and write the content
StoreContentFile(fls, page) == [fls EXCEPT ![page.url] = page.content]

\* asyncio.Lock.acquire by w: at once when the lock is free and nobody is
\* queued, otherwise w joins the FIFO
Acquire(w, lk) ==
    IF lk.holder = 0 /\ lk.waiters = << >>
    THEN [holder |-> w, waiters |-> lk.waiters]
    ELSE [holder |-> lk.holder, waiters |-> Append(lk.waiters, w)]

\* asyncio.Lock.release: the first coroutine of the FIFO gets the lock
Release(lk) ==
    IF lk.waiters = << >> THEN [holder |-> 0, waiters |-> << >>]
    ELSE [holder |-> Head(lk.waiters), waiters |-> Tail(lk.waiters)]

NoCall == [url |-> "", content |-> "", dup |-> FALSE, lookup_failed |-> FALSE,
           path |-> << >>, writes0 |-> 0, dups0 |-> 0]

(***************************************************************************)
(* RobotsHandler: pure helpers.                                            *)
(***************************************************************************)
\* the Crawl-delay a robots.txt may declare (seconds)
RobotsDelay == 2
NoPolicy == [cached |-> FALSE, can_fetch |-> TRUE, crawl_delay |-> None,
             last_fetched |-> 0]

\* what the server answers for /robots.txt: a 200 that allows, a 200 with a
\* Crawl-delay, a 200 that disallows "/", a 200 whose parse raises, a 404,
\* another status, a timeout or connection error
RobotsResponse == {"allow", "delay", "deny", "unparsable", "404", "status",
                   "timeout"}

NoRobotsCall == [op |-> "none", domain |-> "", allowed |-> TRUE, delay |-> 0,
                 cached |-> FALSE, age |-> 0, resp |-> "none"]

\* A plausible slip: the flag never consulted
RobotsNeverIgnored(respect) == FALSE

\* can_fetch / get_crawl_delay: `if not self.config.respect_robots_txt`
RobotsIgnored(respect) == ~respect

\* _parse_robots_txt feeds every line to rp.read_line, a method that
\* urllib.robotparser.RobotFileParser does not have: the first line raises
\* AttributeError, before can_fetch and crawl_delay are read
ParseRaises(resp) == TRUE

\* A plausible slip: anything but a parsed 200 closing the domain
FetchRobotsTxtFailClosed(resp, now) ==
    [cached |-> TRUE, can_fetch |-> FALSE, crawl_delay |-> None,
     last_fetched |-> now]

\* RobotsHandler._fetch_robots_txt and _parse_robots_txt: the RobotsTxtInfo
\* built from a response.  Only a 200 whose parse does not raise gives the
\* rules and the Crawl-delay of the file; everything else allows all.
\* last_fetched defaults to the time of construction
FetchRobotsTxt(resp, now) ==
    LET parsed == resp \in {"allow", "delay", "deny"} /\ ~ParseRaises(resp) IN
    [cached |-> TRUE,
     can_fetch |-> IF parsed THEN resp # "deny" ELSE TRUE,
     crawl_delay |-> IF parsed /\ resp = "delay" THEN RobotsDelay ELSE None,
     last_fetched |-> now]

\* A plausible slip: an entry of exactly the expiry age still reused
CacheFreshInclusive(info, now) ==
    info.cached /\ now - info.last_fetched <= CacheExpiry

\* _get_robots_info: `datetime.now() - last_fetched < self.cache_expiry`
CacheFresh(info, now) == info.cached /\ now - info.last_fetched < CacheExpiry

\* RobotsHandler.get_crawl_delay on a loaded policy
GetCrawlDelay(info) ==
    IF info.cached /\ info.crawl_delay # None /\ info.crawl_delay # 0
    THEN IF info.crawl_delay > RequestDelay THEN info.crawl_delay
         ELSE RequestDelay
    ELSE RequestDelay

(***************************************************************************)
(* Fetcher: the answers of the network and their classification.           *)
(***************************************************************************)
\* config.max_file_size and the chunk of iter_chunked, in units of the model
MaxFileSize == 2
ChunkSize == 1

\* config.allowed_content_types
AllowedContentTypes == {"text/html", "application/xhtml+xml"}

\* a Content-Type header as its parts between semicolons, lower-cased; the
\* empty sequence is a response without the header
ContentType == { << >>, <<"text/html", "charset=utf-8">>, <<"image/png">> }

\* a Content-Length header: absent, not a number, or a number of bytes
ContentLength == { [kind |-> "absent", n |-> 0],
                   [kind |-> "malformed", n |-> 0],
                   [kind |-> "number", n |-> 1],
                   [kind |-> "number", n |-> MaxFileSize + 1] }

Redirects == {301, 302, 303, 307, 308}
Status == {200, 204, 301, 403, 404, 429, 500}

\* what session.get can end in: a timeout, a client error, or a response.
\* Only a 200 has a body worth a size, only a redirect a Location
FetchAnswer ==
    { [net |-> n, status |-> 0, ctype |-> << >>,
       clen |-> [kind |-> "absent", n |-> 0], location |-> FALSE, body |-> 0]
        : n \in {"timeout", "client_error"} }
    \cup
    UNION { { [net |-> "response", status |-> st, ctype |-> ct, clen |-> cl,
               location |-> loc, body |-> b]
                : ct \in ContentType, cl \in ContentLength,
                  loc \in (IF st \in Redirects THEN BOOLEAN ELSE {FALSE}),
                  b \in (IF st = 200 THEN 0..(MaxFileSize + 2 * ChunkSize)
                                     ELSE {0}) }
            : st \in Status }

NoAnswer == [net |-> "none", status |-> 0, ctype |-> << >>,
             clen |-> [kind |-> "absent", n |-> 0], location |-> FALSE,
             body |-> 0]

NoResult == [status |-> "none", page |-> FALSE]
NoFetch == [pc |-> "idle", url |-> "", rq |-> NoAnswer, count |-> 0,
            kept |-> 0, result |-> NoResult]

\* CrawlResult(status=..., page=...)
CrawlResult(status, page) == [status |-> status, page |-> page]

\* _is_allowed_content_type: the part before the first semicolon must be in
\* the allowlist; an empty header is not allowed
IsAllowedContentType(ct) ==
    IF ct = << >> THEN FALSE ELSE Head(ct) \in AllowedContentTypes

\* fetch: `content_length and int(content_length) > self.config.max_file_size`
DeclaredTooLarge(cl) == cl.kind = "number" /\ cl.n > MaxFileSize

\* A plausible slip: the status looked at before the headers
ClassifyStatusFirst(rq) ==
    CASE rq.status = 200 -> "read"
      [] rq.status \in Redirects /\ rq.location -> "failed"
      [] rq.status \in Redirects -> "no_result"
      [] rq.status = 403 -> "robots_denied"
      [] OTHER -> "failed"

\* fetch, from the response headers to the first return or to the read of
\* the body: content type, then declared length, then the status
Classify(rq) ==
    IF ~IsAllowedContentType(rq.ctype) THEN "filtered"
    ELSE IF rq.clen.kind = "malformed" THEN "failed"
    ELSE IF DeclaredTooLarge(rq.clen) THEN "filtered"
    ELSE CASE rq.status = 200 -> "read"
           [] rq.status \in Redirects /\ rq.location -> "failed"
           [] rq.status \in Redirects -> "no_result"
           [] rq.status = 404 -> "failed"
           [] rq.status = 403 -> "robots_denied"
           [] rq.status = 429 -> "failed"
           [] rq.status >= 500 -> "failed"
           [] OTHER -> "failed"

\* A plausible slip: the byte count never compared with the cap
NeverOverCap(n) == FALSE

\* _read_content_safely: `content_length > self.config.max_file_size`
OverCap(n) == n > MaxFileSize

\* how many fetch calls a run of the fetcher makes
MaxFetches == 2

(***************************************************************************)
(* The crawl: WebCrawler.crawl and its worker coroutines.                  *)
(***************************************************************************)
FetchOutcome == {"success", "filtered", "robots_denied", "failed", "no_result"}

\* A plausible slip: a failure branch that forgets its counter
CounterForMissing(outcome) ==
    CASE outcome = "robots_denied" -> "robots_denied"
      [] outcome = "filtered"      -> "none"
      [] OTHER                     -> "errors"

\* _process_url: the counter each non-success outcome increments; a fetch
\* that returns no result raises AttributeError, counted by the except arm
CounterFor(outcome) ==
    CASE outcome = "robots_denied" -> "robots_denied"
      [] outcome = "filtered"      -> "filtered"
      [] OTHER                     -> "errors"

\* the outside world answers; plain is the ordinary successful answer
Deviate(plain) ==
    /\ ~plain => deviations < MaxDeviations
    /\ deviations' = IF plain THEN deviations ELSE deviations + 1

Bump(st, name) == IF name = "none" THEN st ELSE [st EXCEPT ![name] = @ + 1]

LinkInfo(u, depth) == [url |-> u, depth |-> depth, priority |-> LinkPriority(depth)]

(***************************************************************************)
(* The URL shortener of system-design/short-url: a Snowflake-like          *)
(* IDGenerator, the Base62Converter and the url_mappings table behind the  *)
(* HTTP handlers.  Timestamps are milliseconds counted from                *)
(* IDGenerator.epoch.                                                      *)
(***************************************************************************)
\* the threads that call the generator and send requests
NumThreads == 2
\* the last millisecond of the shortener's clock
MaxMs == 1
\* how many requests are sent in a run of the shortener
MaxRequests == 3
\* the largest integer given to Base62Converter.encode on its own
MaxNum == 4000
\* the 12 bits of IDGenerator.sequence (0xFFF)
SequenceMask == 4095
\* id_generator = IDGenerator(machine_id=1)
MachineId == 1
\* Base62Converter.BASE
BASE == 62

Threads == 1..NumThreads

\* the original URLs of the shorten requests
OriginalURL == {"u1", "u2"}

\* Base62Converter.BASE62_CHARS
BASE62_CHARS ==
    <<"0", "1", "2", "3", "4", "5", "6", "7", "8", "9",
      "a", "b", "c", "d", "e", "f", "g", "h", "i", "j", "k", "l", "m",
      "n", "o", "p", "q", "r", "s", "t", "u", "v", "w", "x", "y", "z",
      "A", "B", "C", "D", "E", "F", "G", "H", "I", "J", "K", "L", "M",
      "N", "O", "P", "Q", "R", "S", "T", "U", "V", "W", "X", "Y", "Z">>

\* BASE62_CHARS.index(char), counted from 0
CharIndex(char) == (CHOOSE i \in 1..Len(BASE62_CHARS) : BASE62_CHARS[i] = char) - 1

\* reversed(result)
Reversed(s) == [i \in 1..Len(s) |-> s[Len(s) + 1 - i]]

\* the while loop of encode: the digits of num, the least significant first
RECURSIVE EncodeDigits(_)
EncodeDigits(num) ==
    IF num > 0
    THEN <<BASE62_CHARS[(num % BASE) + 1]>> \o EncodeDigits(num \div BASE)
    ELSE << >>

\* encode without the reversal of the digits
encodeUnreversed(num) ==
    IF num = 0 THEN <<BASE62_CHARS[1]>> ELSE EncodeDigits(num)

\* Base62Converter.encode: a string is the sequence of its characters
encode(num) ==
    IF num = 0 THEN <<BASE62_CHARS[1]>> ELSE Reversed(EncodeDigits(num))

\* the for loop of decode
RECURSIVE DecodeFrom(_, _)
DecodeFrom(num, encoded) ==
    IF encoded = << >>
    THEN num
    ELSE DecodeFrom(num * BASE + CharIndex(Head(encoded)), Tail(encoded))

\* Base62Converter.decode
decode(encoded) == DecodeFrom(0, encoded)

\* IDGenerator.__init__
NewGenerator == [sequence |-> 0, last_timestamp |-> None, lock |-> 0]

\* the ID constructed by generate_id: the three fields do not overlap, so
\* the bitwise or of the shifted fields is their sum
IdValue(timestamp, sequence) ==
    timestamp * 2^22 + MachineId * 2^12 + sequence

\* a generator that has been called SequenceMask times in millisecond 0
\* (the generator outlives the databases the tests put behind the handlers)
BusyGenerator ==
    [sequence |-> SequenceMask - 1, last_timestamp |-> 0, lock |-> 0]

NoCode == << >>
NoRequest == [pc |-> "idle", op |-> "", arg |-> "", timestamp |-> 0,
              id |-> 0]
NoB62 == [pc |-> "idle", num |-> 0, encoded |-> NoCode, decoded |-> 0]

\* what a caller gets back: an ID from generate_id, or the status of an HTTP
\* response with its short_url or its total_clicks; sent tells the requests
\* of the run from the calls made before it
Response(sent, r, status, id, short_url, clicks) ==
    [sent |-> sent, op |-> r.op, arg |-> r.arg, status |-> status, id |-> id,
     short_url |-> short_url, clicks |-> clicks]

\* the IDs the generator has returned so far, as far as they are recorded:
\* of the calls made before the run, the first and the latest one
EarlierResponses(generator) ==
    IF generator.last_timestamp = None THEN << >>
    ELSE LET r == [NoRequest EXCEPT !.op = "generate_id"] IN
         << Response(FALSE, r, 200, IdValue(generator.last_timestamp, 0),
                     NoCode, 0),
            Response(FALSE, r, 200,
                     IdValue(generator.last_timestamp, generator.sequence),
                     NoCode, 0) >>

\* the module of the shortener as imported, around a generator
InitShortener(generator) ==
    /\ now_ms = 0
    /\ id_generator = generator
    /\ url_mappings = << >>
    /\ req = [t \in Threads |-> NoRequest]
    /\ responses = EarlierResponses(generator)
    /\ b62 = NoB62

(***************************************************************************)
(* Parser._normalize_url on URL strings.  A string is the sequence of its  *)
(* characters; the URLs have no parameters (no ";" in their paths).        *)
(***************************************************************************)
\* the longest path of the URLs normalised
MaxPathLen == 4

Http == <<"h", "t", "t", "p">>

\* the sequences over the characters cs of the lengths 0..n
RECURSIVE Strings(_, _)
Strings(cs, n) ==
    IF n = 0 THEN {<< >>}
    ELSE LET shorter == Strings(cs, n - 1) IN
         shorter \cup {Append(s, c) : s \in shorter, c \in cs}

\* the URLs normalised: http://<host><path>[?<query>][#<fragment>]
UrlStrings ==
    {Http \o <<":", "/", "/">> \o host \o path \o query \o fragment :
        host \in {<<"a">>, <<"A">>},
        path \in {p \in Strings({"/", "p"}, MaxPathLen) :
                     p = << >> \/ Head(p) = "/"},
        query \in {<< >>, <<"?", "q">>},
        fragment \in {<< >>, <<"#", "f">>}}

\* str.find for a set of characters: the first position of s that holds
\* one of them, Len(s) + 1 when there is none
RECURSIVE FindFrom(_, _, _)
FindFrom(s, cs, i) ==
    IF i > Len(s) THEN i
    ELSE IF s[i] \in cs THEN i
    ELSE FindFrom(s, cs, i + 1)

\* s[i:] and s[:i] counted from 1
From(s, i) == SubSeq(s, i, Len(s))
Upto(s, i) == SubSeq(s, 1, i)

\* str.count for one character
CountOf(s, c) == Cardinality({i \in 1..Len(s) : s[i] = c})

\* str.lower, character by character
LowerStr(s) == [i \in 1..Len(s) |-> Lower(s[i])]

\* urllib.parse.urlparse: the scheme before the first ":", the netloc
\* after "//" up to the first of "/", "?" and "#", the fragment after the
\* first "#", the query after the first "?", and the path
UrlParse(url) ==
    LET colon    == FindFrom(url, {":"}, 1)
        scheme   == IF colon <= Len(url) THEN Upto(url, colon - 1) ELSE << >>
        rest     == IF colon <= Len(url) THEN From(url, colon + 1) ELSE url
        slashes  == Len(rest) >= 2 /\ Upto(rest, 2) = <<"/", "/">>
        stop     == FindFrom(rest, {"/", "?", "#"}, 3)
        netloc   == IF slashes THEN SubSeq(rest, 3, stop - 1) ELSE << >>
        tail     == IF slashes THEN From(rest, stop) ELSE rest
        hash     == FindFrom(tail, {"#"}, 1)
        fragment == From(tail, hash + 1)
        front    == Upto(tail, hash - 1)
        mark     == FindFrom(front, {"?"}, 1)
    IN [scheme |-> scheme, netloc |-> netloc, path |-> Upto(front, mark - 1),
        query |-> From(front, mark + 1), fragment |-> fragment]

\* urllib.parse.urlunparse for a scheme that uses a netloc: empty
\* components are left out together with their delimiters
UrlUnparse(parts) ==
    LET path  == IF parts.path # << >> /\ Head(parts.path) # "/"
                 THEN <<"/">> \o parts.path ELSE parts.path
        url   == <<"/", "/">> \o parts.netloc \o path
        named == IF parts.scheme # << >>
                 THEN parts.scheme \o <<":">> \o url ELSE url
        asked == IF parts.query # << >>
                 THEN named \o <<"?">> \o parts.query ELSE named
    IN IF parts.fragment # << >>
       THEN asked \o <<"#">> \o parts.fragment ELSE asked

\* `if normalized.endswith('/') and normalized.count('/') > 3:
\*      normalized = normalized[:-1]`
StripSlash(normalized) ==
    IF /\ normalized # << >>
       /\ normalized[Len(normalized)] = "/"
       /\ CountOf(normalized, "/") > 3
    THEN Upto(normalized, Len(normalized) - 1)
    ELSE normalized

\* Parser._normalize_url on a string: the host in lower case, the fragment
\* removed, then the trailing slash
NormalizeUrlString(url) ==
    LET parsed == UrlParse(url) IN
    StripSlash(UrlUnparse([parsed EXCEPT !.netloc = LowerStr(@),
                                         !.fragment = << >>]))

NoNorm == [pc |-> "idle", url |-> << >>, once |-> << >>, twice |-> << >>]

\* how many times crawl() is called on the one WebCrawler
MaxCalls == 2
Calls == 1..MaxCalls

(***************************************************************************)
(* The SnowflakeGenerator of system-design/distributed-id.  Timestamps are *)
(* milliseconds counted from the generator's epoch.                        *)
(***************************************************************************)
\* the last millisecond of the generator's clock
LastMs == 2
\* how many generate_id calls are made in a run
MaxGenerated == 3

MAX_DATACENTER_ID == 31
MAX_MACHINE_ID == 31
MAX_SEQUENCE == 4095
MACHINE_ID_SHIFT == 12
DATACENTER_ID_SHIFT == 17
TIMESTAMP_SHIFT == 22

\* the (datacenter_id, machine_id) pairs the generators are built with
GeneratorIds == {<<2, 3>>, <<15, 31>>}

\* SnowflakeGenerator.__init__
NewSnowflake(datacenter_id, machine_id) ==
    [datacenter_id |-> datacenter_id, machine_id |-> machine_id,
     last_timestamp |-> None, sequence |-> 0, lock |-> 0]

\* a generator that has been called MAX_SEQUENCE times in millisecond 1
BusySnowflake(datacenter_id, machine_id) ==
    [datacenter_id |-> datacenter_id, machine_id |-> machine_id,
     last_timestamp |-> 1, sequence |-> MAX_SEQUENCE - 1, lock |-> 0]

\* the ID constructed by generate_id: __init__ keeps datacenter_id and
\* machine_id within their five bits, so the fields do not overlap and the
\* bitwise or of the shifted fields is their sum
SnowflakeId(timestamp, datacenter_id, machine_id, sequence) ==
    timestamp * 2^TIMESTAMP_SHIFT + datacenter_id * 2^DATACENTER_ID_SHIFT
    + machine_id * 2^MACHINE_ID_SHIFT + sequence

\* SnowflakeGenerator.parse_id: x & m is x % (m + 1), x >> n is x \div 2^n
parse_id(snowflake_id) ==
    [sequence |-> snowflake_id % (MAX_SEQUENCE + 1),
     machine_id |->
         (snowflake_id \div 2^MACHINE_ID_SHIFT) % (MAX_MACHINE_ID + 1),
     datacenter_id |->
         (snowflake_id \div 2^DATACENTER_ID_SHIFT) % (MAX_DATACENTER_ID + 1),
     timestamp |-> snowflake_id \div 2^TIMESTAMP_SHIFT]

NoSnowCall == [pc |-> "idle", timestamp |-> 0]

\* the IDs the generator returned before the run, as far as they are
\* recorded: the latest one
EarlierIds(g) ==
    IF g.last_timestamp = None THEN << >>
    ELSE << SnowflakeId(g.last_timestamp, g.datacenter_id, g.machine_id,
                        g.sequence) >>

\* a generator and its callers, the clock at the generator's latest
\* millisecond
InitSnowflake(g) ==
    /\ snowflake = g
    /\ time_ms = IF g.last_timestamp = None THEN 0 ELSE g.last_timestamp
    /\ snow_call = [t \in Threads |-> NoSnowCall]
    /\ generated_ids = EarlierIds(g)
    /\ clock_errors = 0

\* the normalisation and the crawl() calls before their first call
InitParserCalls ==
    /\ norm = NoNorm
    /\ crawls = [c \in Calls |-> "none"]
    /\ pool = [c \in Calls |-> [w \in Workers |-> "none"]]

(***************************************************************************)
(* The notification service of system-design/notification-service: the    *)
(* KafkaNotificationConsumer.  The topic has one partition, its messages   *)
(* are named by their offsets; the consumers of a worker belong to one     *)
(* group and none of them runs beside another.                             *)
(***************************************************************************)
\* the messages in the topic
MaxMessages == 3
\* how many consumers are started, one after the other
MaxConsumers == 2

Offsets == 0..(MaxMessages - 1)

\* what a call of message_handler does
HandlerOutcomes == {"true", "false", "raised"}

\* KafkaConsumer(..., auto_offset_reset='earliest',
\* enable_auto_commit=False): a consumer of the group starts at the group's
\* committed offset, at the first message when nothing is committed
Connect(committed) == [position |-> committed, committed |-> committed]

\* the first consumer of the group, iterating
InitKafka ==
    /\ consumer = Connect(0)
    /\ message = None
    /\ handler_log = [o \in Offsets |-> {}]
    /\ consumers_started = 1

(***************************************************************************)
(* The notification service: BaseNotificationWorker, the message handler   *)
(* of the consumer, and the notifications table it updates.                *)
(***************************************************************************)
\* the largest retry_count a message carries
MaxRetryCount == 3
\* settings.max_retries, the default of NotificationMessage.max_retries
max_retries == 3

\* the notifications of the table
NotificationIds == {"n1"}

\* the messages of a topic: NotificationMessage, as far as the worker reads
\* it
Messages ==
    [notification_id : NotificationIds, retry_count : 0..MaxRetryCount,
     max_retries : {max_retries}]

\* what the world answers during one call of the handler: _get_user (None
\* also when its query raises), get_recipient_from_user,
\* provider.validate_recipient, provider.send, and database.execute of the
\* status update
Worlds ==
    [user : {"found", "missing"},
     recipient : {"present", "absent"},
     validate : {"valid", "invalid", "raises"},
     send : {"success", "retry_after", "no_retry", "raises"},
     execute : {"ok", "raises"}]

\* no row with the id
NoNotification == [status |-> "", retry_count |-> 0]

\* _create_notification_record: the row as inserted
NewNotification == [status |-> "pending", retry_count |-> 0]

NoHandled == [message |-> [notification_id |-> "", retry_count |-> 0,
                           max_retries |-> 0],
              world |-> [user |-> "", recipient |-> "", validate |-> "",
                         send |-> "", execute |-> ""],
              result |-> FALSE]

\* database.execute of an UPDATE ... WHERE id = :notification_id inside
\* try/except Exception: the row changes unless execute raises
Execute(table, w, notification_id, row) ==
    IF w.execute = "ok" /\ table[notification_id] # NoNotification
    THEN [table EXCEPT ![notification_id] = row]
    ELSE table

\* _update_notification_status(notification_id, status)
UpdateNotificationStatus(table, w, notification_id, status) ==
    Execute(table, w, notification_id,
            [table[notification_id] EXCEPT !.status = status])

\* _schedule_retry(notification_id, retry_count, retry_after)
ScheduleRetry(table, w, notification_id, retry_count) ==
    Execute(table, w, notification_id,
            [status |-> "retrying", retry_count |-> retry_count])

\* `if retry_count < max_retries and result.retry_after`
ShouldRetry(retry_count, limit, send) ==
    retry_count < limit /\ send = "retry_after"

\* _process_message_async(message_data): the result of the handler and
\* the table of the table after it
ProcessMessageAsync(table, m, w) ==
    LET failed == [result |-> TRUE,
                   table |-> UpdateNotificationStatus(table, w,
                                m.notification_id, "failed")]
        unexpected == [result |-> FALSE, table |-> table] IN
    IF w.user # "found" THEN failed
    ELSE IF w.recipient # "present" THEN failed
    ELSE IF w.validate = "raises" THEN unexpected
    ELSE IF w.validate # "valid" THEN failed
    ELSE IF w.send = "raises" THEN unexpected
    ELSE IF w.send = "success"
    THEN [result |-> TRUE,
          table |-> UpdateNotificationStatus(table, w, m.notification_id,
                                            "sent")]
    ELSE IF ShouldRetry(m.retry_count, m.max_retries, w.send)
    THEN [result |-> TRUE,
          table |-> ScheduleRetry(table, w, m.notification_id,
                                 m.retry_count + 1)]
    ELSE failed

\* an empty table, no message handled
InitNotify ==
    /\ notifications = [n \in NotificationIds |-> NoNotification]
    /\ last_handled = NoHandled

\* the other programs before their first call
InitOther ==
    /\ InitParserCalls
    /\ InitSnowflake(NewSnowflake(2, 3))
    /\ InitKafka
    /\ InitNotify

InitCrawler ==
    /\ clock = 0
    /\ seen_urls = {}
    /\ domain_queues = [d \in Domain |-> << >>]
    /\ dom_order = << >>
    /\ last_access_time = [d \in Domain |-> None]
    /\ total_urls = 0
    /\ domain_locks = [d \in Domain |-> 0]
    /\ lock_waiters = [d \in Domain |-> << >>]
    /\ db = [u \in URL |-> NoRecord]
    /\ cache = [d \in Domain |-> NoPolicy]
    /\ robots_seen = [d \in Domain |-> "none"]
    /\ rcall = [w \in Workers |-> NoRobotsCall]
    /\ rret = [w \in Workers |-> NoRobotsCall]
    /\ fetcher = [total_requests |-> 0, successful_requests |-> 0,
                  failed_requests |-> 0]
    /\ fcall = [w \in Workers |-> NoFetch]
    /\ is_running = FALSE
    /\ pages_crawled = 0
    /\ pages_stored = 0
    /\ stats = [errors |-> 0, robots_denied |-> 0, filtered |-> 0,
                pages_crawled |-> 0, pages_stored |-> 0]
    /\ pc = [w \in Workers |-> "idle"]
    /\ cur = [w \in Workers |-> NoInfo]
    /\ wnow = [w \in Workers |-> 0]
    /\ scan = [w \in Workers |-> [idx |-> 0, size |-> 0]]
    /\ links = [w \in Workers |-> << >>]
    /\ mark_ok = [w \in Workers |-> "none"]
    /\ rows = NoRows
    /\ files = [u \in URL |-> NoFile]
    /\ duplicate_content = 0
    /\ total_stored = 0
    /\ db_lock = 0
    /\ db_waiters = << >>
    /\ store_pc = [w \in Workers |-> "idle"]
    /\ call = [w \in Workers |-> NoCall]
    /\ writes = 0
    /\ store_log = << >>
    /\ appended = [u \in URL |-> 0]
    /\ returned = [u \in URL |-> 0]
    /\ marks = [u \in URL |-> << >>]
    /\ deviations = 0
    /\ add_log = [u \in URL |-> << >>]
    /\ handed = {}
    /\ restarts = 0

\* CrawlerConfig.respect_robots_txt defaults to True
\* the crawler and the shortener as constructed
InitCommon ==
    /\ InitCrawler
    /\ InitShortener(NewGenerator)
    /\ InitOther

Init ==
    /\ InitCommon
    /\ respect_robots_txt = TRUE
    /\ max_pages = MaxPages

\* WebCrawler.crawl(seeds) up to asyncio.gather: the flag, the seeds, the
\* workers
Crawl(seeds) ==
    /\ ~is_running
    /\ \A w \in Workers : pc[w] = "idle"
    /\ LET st == AddSeeds([fs |-> FS, store |-> db], seeds) IN
         /\ SetFS(st.fs)
         /\ db' = st.store
    /\ is_running' = TRUE
    /\ pc' = [w \in Workers |-> "top"]
    /\ UNCHANGED <<clock, last_access_time, domain_locks, lock_waiters, cache, robotsVars, fetchVars,
                   pages_crawled, pages_stored, stats, cur, wnow, scan, links,
                   mark_ok, storageVars, returned, marks, envVars, apiVars,
                   configVars, shortVars, otherVars>>

\* get_next_url: queue.popleft(), last_access_time[domain] = now, total_urls
Dequeue(d, now) ==
    /\ domain_queues' = [domain_queues EXCEPT ![d] = Tail(@)]
    /\ last_access_time' = [last_access_time EXCEPT ![d] = now]
    /\ total_urls' = total_urls - 1

\* get_next_url under the domain lock: popleft, last_access_time, total_urls;
\* the coroutine then suspends in _update_url_status holding the lock
Pop(w, d, now) ==
    /\ cur' = [cur EXCEPT ![w] = Head(domain_queues[d])]
    /\ Dequeue(d, now)
    /\ domain_locks' = [domain_locks EXCEPT ![d] = w]
    /\ pc' = [pc EXCEPT ![w] = "gn_update"]

\* asyncio.Lock.acquire returns at once only when the lock is free and no
\* coroutine is queued for it
LockFree(d, lw) == domain_locks[d] = 0 /\ lw[d] = << >>

\* get_next_url: the scan from position i of the dict with the captured now;
\* lw is the lock queues as the caller leaves them
GetNext(w, i, now, lw) ==
    LET j == NextEligible(i, now) IN
    IF j = 0
    THEN \* return None: the worker starts its one-second sleep
         /\ pc' = [pc EXCEPT ![w] = "sleep"]
         /\ wnow' = [wnow EXCEPT ![w] = clock]
         /\ scan' = [scan EXCEPT ![w] = [idx |-> 0, size |-> 0]]
         /\ lock_waiters' = lw
         /\ UNCHANGED <<cur, domain_queues, last_access_time, total_urls,
                        domain_locks>>
    ELSE IF LockFree(dom_order[j], lw)
         THEN /\ Pop(w, dom_order[j], now)
              /\ wnow' = [wnow EXCEPT ![w] = 0]
              /\ scan' = [scan EXCEPT ![w] = [idx |-> 0, size |-> 0]]
              /\ lock_waiters' = lw
         ELSE \* the lock is taken: wait in its FIFO
              /\ pc' = [pc EXCEPT ![w] = "gn_wait"]
              /\ wnow' = [wnow EXCEPT ![w] = now]
              /\ scan' = [scan EXCEPT ![w] = [idx |-> j, size |-> Len(dom_order)]]
              /\ lock_waiters' = [lw EXCEPT ![dom_order[j]] = Append(@, w)]
              /\ UNCHANGED <<cur, domain_queues, last_access_time, total_urls,
                             domain_locks>>

frontierRest == <<seen_urls, dom_order, db, appended>>

\* A plausible slip: a loop that never tests the flag
LoopIgnoresFlag(running, crawled) == crawled < max_pages

\* _crawler_worker: `while self.is_running` and the max_pages test
LoopGoesOn(running, crawled) == running /\ crawled < max_pages

\* _crawler_worker: the loop head, then get_next_url up to its first
\* suspension
Top(w) ==
    /\ pc[w] = "top"
    /\ IF ~LoopGoesOn(is_running, pages_crawled)
       THEN /\ pc' = [pc EXCEPT ![w] = "done"]
            /\ UNCHANGED <<cur, wnow, scan, domain_queues, last_access_time,
                           total_urls, domain_locks, lock_waiters>>
       ELSE GetNext(w, 1, clock, lock_waiters)
    /\ UNCHANGED <<clock, frontierRest, cache, robotsVars, fetchVars, crawlerVars, links, mark_ok,
                   storageVars, returned, marks, envVars, apiVars,
                   configVars, shortVars, otherVars>>

\* get_next_url resumed with the domain lock: `if queue:` pops, else the for
\* loop goes on (and raises RuntimeError if the dict grew meanwhile)
LockGranted(w) ==
    /\ pc[w] = "gn_wait"
    /\ LET d  == dom_order[scan[w].idx]
           lw == [lock_waiters EXCEPT ![d] = Tail(@)]
       IN
       /\ domain_locks[d] = 0
       /\ Head(lock_waiters[d]) = w
       /\ IF domain_queues[d] # << >>
          THEN /\ Pop(w, d, wnow[w])
               /\ lock_waiters' = lw
               /\ scan' = [scan EXCEPT ![w] = [idx |-> 0, size |-> 0]]
               /\ wnow' = [wnow EXCEPT ![w] = 0]
          ELSE IF Len(dom_order) # scan[w].size
               THEN /\ pc' = [pc EXCEPT ![w] = "pause"]
                    /\ wnow' = [wnow EXCEPT ![w] = clock]
                    /\ scan' = [scan EXCEPT ![w] = [idx |-> 0, size |-> 0]]
                    /\ lock_waiters' = lw
                    /\ UNCHANGED <<cur, domain_queues, last_access_time,
                                   total_urls, domain_locks>>
               ELSE GetNext(w, scan[w].idx + 1, wnow[w], lw)
    /\ UNCHANGED <<clock, frontierRest, cache, robotsVars, fetchVars, crawlerVars, links, mark_ok,
                   storageVars, returned, marks, envVars, apiVars,
                   configVars, shortVars, otherVars>>

\* can_fetch up to its first suspension: a fresh cache entry answers at
\* once, otherwise robots.txt is requested
RobotsGate(w, d) ==
    IF RobotsIgnored(respect_robots_txt)
    THEN /\ cache' = cache
         /\ pc' = [pc EXCEPT ![w] = "fetch"]
         /\ UNCHANGED mark_ok
    ELSE
    IF CacheFresh(cache[d], clock)
    THEN /\ cache' = cache
         /\ IF cache[d].can_fetch
            THEN pc' = [pc EXCEPT ![w] = "fetch"] /\ UNCHANGED mark_ok
            ELSE /\ pc' = [pc EXCEPT ![w] = "mark"]
                 /\ mark_ok' = [mark_ok EXCEPT ![w] = "denied"]
    ELSE \* an expired entry is deleted before the request
         /\ cache' = [cache EXCEPT ![d] = NoPolicy]
         /\ pc' = [pc EXCEPT ![w] = "robots"]
         /\ UNCHANGED mark_ok

\* get_next_url returns: the status update lands, the domain lock is
\* released; _process_url starts with the robots check
GnUpdate(w) ==
    /\ pc[w] = "gn_update"
    /\ db' = UpdateUrlStatus(db, cur[w].url, "in_progress")
    /\ domain_locks' = [domain_locks EXCEPT ![DomainOf(cur[w].url)] = 0]
    /\ returned' = [returned EXCEPT ![cur[w].url] = @ + 1]
    /\ RobotsGate(w, DomainOf(cur[w].url))
    /\ UNCHANGED <<clock, seen_urls, domain_queues, dom_order, last_access_time,
                   total_urls, lock_waiters, robotsVars, fetchVars, crawlerVars, cur, wnow,
                   scan, links, storageVars, appended, marks, envVars, apiVars,
                   configVars, shortVars, otherVars>>

\* the answers to a robots.txt request that a crawl meets: files that
\* allow, declare a Crawl-delay, or disallow (the failed requests end in the
\* same policy as the first)
CrawlRobotsResponse == {"allow", "delay", "deny"}

\* _get_robots_info: the robots.txt request completes and fills the cache
RobotsDone(w) ==
    /\ pc[w] = "robots"
    /\ \E resp \in CrawlRobotsResponse :
         LET info == FetchRobotsTxt(resp, clock) IN
         /\ Deviate(resp = "allow")
         /\ cache' = [cache EXCEPT ![DomainOf(cur[w].url)] = info]
         /\ robots_seen' = [robots_seen EXCEPT ![DomainOf(cur[w].url)] = resp]
         /\ IF info.can_fetch
            THEN pc' = [pc EXCEPT ![w] = "fetch"] /\ UNCHANGED mark_ok
            ELSE /\ pc' = [pc EXCEPT ![w] = "mark"]
                 /\ mark_ok' = [mark_ok EXCEPT ![w] = "denied"]
    /\ UNCHANGED <<clock, frontierVars, crawlerVars, cur, wnow, scan, links,
                   storageVars, obsVars, apiVars, respect_robots_txt, rcall,
                   rret, fetchVars, configVars, shortVars, otherVars>>

\* a parse that yields the links of the page whether it raised or not
ParsedLinksAnyway(u, parsed) == LinksOf(u)

\* Parser.parse: the links of the returned page.  All the extractors catch
\* their own exceptions, so parse raises internally only while it builds
\* the BeautifulSoup, before page.links is assigned; its except arm returns
\* the page as the fetcher made it, with the default empty list
ParsedLinks(u, parsed) == IF parsed THEN LinksOf(u) ELSE << >>

\* a success branch that forgets to count the page
ProcessResultUncounted(w, out, parsed) ==
    IF out = "success"
    THEN /\ links' = [links EXCEPT ![w] = ParsedLinks(cur[w].url, parsed)]
         /\ pc' = [pc EXCEPT ![w] = "store"]
         /\ UNCHANGED <<pages_crawled, stats, mark_ok>>
    ELSE /\ stats' = Bump(stats, CounterFor(out))
         /\ pc' = [pc EXCEPT ![w] = "mark"]
         /\ mark_ok' = [mark_ok EXCEPT ![w] = "failed"]
         /\ UNCHANGED <<pages_crawled, links>>

\* _process_url with the result of the fetch: a success is counted and
\* parsed (a parse that raises leaves the links empty) and goes on to the
\* store, anything else is counted and marked failed
ProcessResult(w, out, parsed) ==
    IF out = "success"
    THEN /\ pages_crawled' = pages_crawled + 1
         /\ links' = [links EXCEPT ![w] = ParsedLinks(cur[w].url, parsed)]
         /\ pc' = [pc EXCEPT ![w] = "store"]
         /\ UNCHANGED <<stats, mark_ok>>
    ELSE /\ stats' = Bump(stats, CounterFor(out))
         /\ pc' = [pc EXCEPT ![w] = "mark"]
         /\ mark_ok' = [mark_ok EXCEPT ![w] = "failed"]
         /\ UNCHANGED <<pages_crawled, links>>

\* Fetcher.fetch returns (the call itself is modelled step by step in the
\* fetcher specification) and _process_url classifies the result
FetchDone(w) ==
    /\ pc[w] = "fetch"
    /\ \E out \in FetchOutcome, parsed \in BOOLEAN :
         /\ Deviate(out = "success" /\ parsed)
         /\ out # "success" => parsed
         /\ ProcessResult(w, out, parsed)
    /\ UNCHANGED <<clock, frontierVars, cache, robotsVars, fetchVars, is_running, pages_stored, cur,
                   wnow, scan, storageVars, obsVars, apiVars, configVars, shortVars, otherVars>>

\* _add_discovered_links from the links ls on: add_url of the first link not
\* yet seen admits it and suspends in _persist_url; with no such link the
\* loop ends and mark_completed(url, success=True) is awaited
ContinueLinks(w, ls) ==
    LET rest == DropSeen(ls) IN
    IF rest = << >>
    THEN /\ pc' = [pc EXCEPT ![w] = "mark"]
         /\ mark_ok' = [mark_ok EXCEPT ![w] = "success"]
         /\ links' = [links EXCEPT ![w] = << >>]
         /\ UNCHANGED <<seen_urls, domain_queues, dom_order, total_urls,
                        appended>>
    ELSE /\ SetFS(Admit(FS, LinkInfo(Head(rest), cur[w].depth + 1)))
         /\ pc' = [pc EXCEPT ![w] = "persist"]
         /\ links' = [links EXCEPT ![w] = rest]
         /\ UNCHANGED mark_ok

\* a counter of stored pages that counts every call of store_page
StoredCountAnyway(count, stored) == count + 1

\* `if await self.storage.store_page(parsed_page): self.pages_stored += 1`
StoredCount(count, stored) == IF stored THEN count + 1 ELSE count

\* store_page returns True or, after an exception inside it, False (the
\* call itself is modelled step by step in the storage specification); links
\* are followed only below the depth limit
StoreDone(w) ==
    /\ pc[w] = "store"
    /\ \E stored \in BOOLEAN :
         /\ Deviate(stored)
         /\ pages_stored' = StoredCount(pages_stored, stored)
    /\ IF DepthAdmits(cur[w])
       THEN ContinueLinks(w, links[w])
       ELSE ContinueLinks(w, << >>)
    /\ UNCHANGED <<clock, last_access_time, domain_locks, lock_waiters, db,
                   cache, robotsVars, fetchVars, is_running, pages_crawled, stats, cur, wnow, scan,
                   storageVars, returned, marks, apiVars, configVars, shortVars, otherVars>>

\* add_url resumes: the INSERT lands and the loop goes on with the next link
PersistDone(w) ==
    /\ pc[w] = "persist"
    /\ db' = PersistUrl(db, LinkInfo(Head(links[w]), cur[w].depth + 1))
    /\ ContinueLinks(w, Tail(links[w]))
    /\ UNCHANGED <<clock, last_access_time, domain_locks, lock_waiters, cache, robotsVars, fetchVars,
                   crawlerVars, cur, wnow, scan, storageVars, returned, marks,
                   envVars, apiVars, configVars, shortVars, otherVars>>

\* mark_completed lands; a robots.txt denial counts after it.  The worker is
\* back at its loop head
Mark(w) ==
    /\ pc[w] = "mark"
    /\ db' = UpdateUrlStatus(db, cur[w].url,
                             IF mark_ok[w] = "success" THEN "success" ELSE "failed")
    /\ marks' = [marks EXCEPT ![cur[w].url] = Append(@, mark_ok[w] = "success")]
    /\ stats' = IF mark_ok[w] = "denied" THEN Bump(stats, "robots_denied")
                ELSE stats
    /\ pc' = [pc EXCEPT ![w] = "top"]
    /\ cur' = [cur EXCEPT ![w] = NoInfo]
    /\ mark_ok' = [mark_ok EXCEPT ![w] = "none"]
    /\ UNCHANGED <<clock, seen_urls, domain_queues, dom_order, last_access_time,
                   total_urls, domain_locks, lock_waiters, cache, robotsVars, fetchVars, is_running,
                   pages_crawled, pages_stored, wnow, scan, links, storageVars,
                   appended, returned, envVars, apiVars, configVars, shortVars, otherVars>>

\* asyncio.sleep(1) seconds in _crawler_worker
SleepSeconds == 1

\* asyncio.sleep(1) ends.  After an empty get_next_url, an empty frontier
\* ends the worker and otherwise it loops; after the `except Exception` arm
\* it loops
Sleep(w) ==
    /\ pc[w] \in {"sleep", "pause"}
    /\ clock >= wnow[w] + SleepSeconds
    /\ pc' = [pc EXCEPT ![w] = IF pc[w] = "sleep" /\ total_urls = 0 THEN "done"
                               ELSE "top"]
    /\ wnow' = [wnow EXCEPT ![w] = 0]
    /\ UNCHANGED <<clock, frontierVars, cache, robotsVars, fetchVars, crawlerVars, cur, scan, links,
                   mark_ok, storageVars, obsVars, envVars, apiVars,
                   configVars, shortVars, otherVars>>

\* asyncio.gather returns: the final statistics, and the flag is cleared
CrawlReturn ==
    /\ \A w \in Workers : pc[w] = "done"
    /\ stats' = [stats EXCEPT !.pages_crawled = pages_crawled,
                              !.pages_stored = pages_stored]
    /\ is_running' = FALSE
    /\ pc' = [w \in Workers |-> "returned"]
    /\ UNCHANGED <<clock, frontierVars, cache, robotsVars, fetchVars, pages_crawled, pages_stored, cur,
                   wnow, scan, links, mark_ok, storageVars, obsVars, envVars, apiVars,
                   configVars, shortVars, otherVars>>

\* one second passes
Tick ==
    /\ clock < MaxClock
    /\ clock' = clock + 1
    /\ UNCHANGED <<frontierVars, cache, robotsVars, fetchVars, crawlerVars, workerVars, storageVars,
                   obsVars, envVars, apiVars, configVars, shortVars, otherVars>>

CrawlStart == \E seeds \in SeedLists : Crawl(seeds)

Next ==
    \/ CrawlStart
    \/ \E w \in Workers :
         \/ Top(w)
         \/ LockGranted(w)
         \/ GnUpdate(w)
         \/ RobotsDone(w)
         \/ FetchDone(w)
         \/ StoreDone(w)
         \/ PersistDone(w)
         \/ Mark(w)
         \/ Sleep(w)
    \/ CrawlReturn
    \/ Tick

Spec == Init /\ [][Next]_vars

\* the same crawl run, named apart for the counters of the frontier and of
\* the orchestrator
SpecCounters == Init /\ [][Next]_vars

(***************************************************************************)
(* The crawl as it runs on: time does not end, stop() may be called, and   *)
(* every step whose completion the code ensures is eventually taken.       *)
(***************************************************************************)
\* a time stamp one second further in the past; stamps older than the
\* longest delay compared with (MaxClock seconds) are all alike
Older(t) == IF t > 0 THEN t - 1 ELSE t

\* one second passes; once the clock reads MaxClock the stamps move instead
Elapse ==
    /\ IF clock < MaxClock
       THEN /\ clock' = clock + 1
            /\ UNCHANGED <<last_access_time, wnow, cache>>
       ELSE /\ clock' = clock
            /\ last_access_time' = [d \in Domain |-> Older(last_access_time[d])]
            /\ wnow' = [w \in Workers |-> Older(wnow[w])]
            /\ cache' = [d \in Domain |->
                           [cache[d] EXCEPT !.last_fetched = Older(@)]]
    /\ UNCHANGED <<seen_urls, domain_queues, dom_order, total_urls,
                   domain_locks, lock_waiters, db, robotsVars, fetchVars,
                   crawlerVars, pc, cur, scan, links, mark_ok, storageVars,
                   obsVars, envVars, apiVars, configVars, shortVars, otherVars>>

\* WebCrawler.stop: the flag is cleared (its sleep changes nothing)
Stop ==
    /\ is_running
    /\ is_running' = FALSE
    /\ UNCHANGED <<clock, frontierVars, cache, robotsVars, fetchVars,
                   pages_crawled, pages_stored, stats, workerVars, storageVars,
                   obsVars, envVars, apiVars, configVars, shortVars, otherVars>>

\* _parse_robots_txt after a 200: rp.read() is urllib's urlopen of
\* robots.txt, a blocking call without timeout, here on a server that
\* accepts the connection and never answers.  The call does not return and
\* the worker goes no further (in the program the event loop stands still
\* with it, so that no other coroutine goes further either)
ReadHangs(w) ==
    /\ pc[w] = "robots"
    /\ Deviate(FALSE)
    /\ pc' = [pc EXCEPT ![w] = "hung"]
    /\ UNCHANGED <<clock, frontierVars, cache, robotsVars, fetchVars,
                   crawlerVars, cur, wnow, scan, links, mark_ok, storageVars,
                   obsVars, apiVars, configVars, shortVars, otherVars>>

\* the steps of worker w that complete by themselves: database calls, the
\* requests of the aiohttp sessions (ClientTimeout), asyncio.sleep
WorkerStep(w) ==
    \/ Top(w)
    \/ LockGranted(w)
    \/ GnUpdate(w)
    \/ RobotsDone(w)
    \/ FetchDone(w)
    \/ StoreDone(w)
    \/ PersistDone(w)
    \/ Mark(w)
    \/ Sleep(w)

NextLive ==
    \/ CrawlStart
    \/ \E w \in Workers :
         \/ Top(w)
         \/ LockGranted(w)
         \/ GnUpdate(w)
         \/ RobotsDone(w)
         \/ ReadHangs(w)
         \/ FetchDone(w)
         \/ StoreDone(w)
         \/ PersistDone(w)
         \/ Mark(w)
         \/ Sleep(w)
    \/ CrawlReturn
    \/ Stop
    \/ Elapse

\* asyncio runs every coroutine that is ready, and time passes; nothing
\* makes urlopen return and nobody has to call stop()
Fairness ==
    /\ WF_vars(CrawlStart)
    /\ \A w \in Workers : WF_vars(WorkerStep(w))
    /\ WF_vars(CrawlReturn)
    /\ WF_vars(Elapse)

SpecLive == Init /\ [][NextLive]_vars /\ Fairness

(***************************************************************************)
(* One crawl from the single seed b1, whose page holds ten links to two    *)
(* distinct URLs, with a page budget that leaves room for all of them.     *)
(***************************************************************************)
\* config.max_pages of the scenario: above the number of URLs in reach
ScenarioPages == MaxPages + 3

InitScenario ==
    /\ InitCommon
    /\ respect_robots_txt = TRUE
    /\ max_pages = ScenarioPages

CrawlOne == Crawl(<<"b1">>)

NextScenario ==
    \/ CrawlOne
    \/ \E w \in Workers :
         \/ Top(w)
         \/ LockGranted(w)
         \/ GnUpdate(w)
         \/ RobotsDone(w)
         \/ FetchDone(w)
         \/ StoreDone(w)
         \/ PersistDone(w)
         \/ Mark(w)
         \/ Sleep(w)
    \/ CrawlReturn
    \/ Elapse

SpecScenario == InitScenario /\ [][NextScenario]_vars

(***************************************************************************)
(* Crawls whose seed lists spell a URL with an upper-case host and a       *)
(* fragment: beside its plain spelling, or beside a page that links to it. *)
(***************************************************************************)
SpelledSeedLists == { <<"A1#f", "a1">>, <<"b1", "A1#f">> }

CrawlSpelled == \E seeds \in SpelledSeedLists : Crawl(seeds)

NextSpelled ==
    \/ CrawlSpelled
    \/ \E w \in Workers :
         \/ Top(w)
         \/ LockGranted(w)
         \/ GnUpdate(w)
         \/ RobotsDone(w)
         \/ FetchDone(w)
         \/ StoreDone(w)
         \/ PersistDone(w)
         \/ Mark(w)
         \/ Sleep(w)
    \/ CrawlReturn
    \/ Tick

SpecSpelled == Init /\ [][NextSpelled]_vars

(***************************************************************************)
(* The frontier driven through its API by one caller that awaits every     *)
(* call, over several lives of the process on the same database file       *)
(* (db_path is the fixed "crawler_frontier.db").                           *)
(***************************************************************************)
\* the URLs the caller works with
ApiURL == {"a1", "a2"}

\* add_url(UrlInfo(u, depth)) run to completion
Add(u, depth) ==
    LET info  == LinkInfo(u, depth)
        fresh == u \notin seen_urls /\ db[u].status = "none"
        st    == AddUrl([fs |-> FS, store |-> db], info)
        res   == ~AlreadySeen(u, seen_urls)
    IN
    /\ Len(add_log[u]) < MaxAdds
    /\ SetFS(st.fs)
    /\ db' = st.store
    /\ add_log' = IF fresh \/ add_log[u] # << >>
                  THEN [add_log EXCEPT ![u] = Append(@, res)]
                  ELSE add_log
    /\ UNCHANGED <<clock, last_access_time, domain_locks, lock_waiters, cache, robotsVars, fetchVars,
                   crawlerVars, workerVars, storageVars, returned, marks,
                   envVars, handed, restarts, configVars, shortVars, otherVars>>

\* get_next_url run to completion with a URL returned: no other coroutine
\* holds a domain lock
NextUrl ==
    LET j == NextEligible(1, clock) IN
    /\ j # 0
    /\ LET d == dom_order[j]
           u == Head(domain_queues[d]).url
       IN
       /\ Dequeue(d, clock)
       /\ db' = UpdateUrlStatus(db, u, "in_progress")
       /\ handed' = handed \cup {u}
       /\ add_log' = [add_log EXCEPT ![u] = << >>]
    /\ UNCHANGED <<clock, seen_urls, dom_order, domain_locks, lock_waiters,
                   cache, robotsVars, fetchVars, crawlerVars, workerVars, storageVars, obsVars, envVars,
                   restarts, configVars, shortVars, otherVars>>

\* mark_completed(u, success) for a URL that get_next_url handed out
MarkCompleted(u, success) ==
    /\ u \in handed
    /\ db' = UpdateUrlStatus(db, u, IF success THEN "success" ELSE "failed")
    /\ handed' = handed \ {u}
    /\ add_log' = [add_log EXCEPT ![u] = << >>]
    /\ UNCHANGED <<clock, seen_urls, domain_queues, dom_order, last_access_time,
                   total_urls, domain_locks, lock_waiters, cache, robotsVars, fetchVars, crawlerVars,
                   workerVars, storageVars, obsVars, envVars, restarts,
                   configVars, shortVars, otherVars>>

\* the rows _load_pending_urls selects: WHERE status = 'pending'
PendingRows == {u \in URL : db[u].status = "pending"}

\* ORDER BY priority DESC, discovered_at: the orders in which the cursor may
\* yield the pending rows.  discovered_at is the dataclass default of
\* UrlInfo, evaluated once at import, so it is equal in all rows and rows of
\* equal priority come in any order
LoadOrders ==
    {ord \in [1..Cardinality(PendingRows) -> PendingRows] :
        /\ \A i, j \in DOMAIN ord : i # j => ord[i] # ord[j]
        /\ \A i, j \in DOMAIN ord :
              i < j => db[ord[i]].priority >= db[ord[j]].priority}

\* _load_pending_urls: each row is appended to its domain queue, added to
\* the seen-set and counted
RECURSIVE LoadPending(_, _)
LoadPending(fs, ord) ==
    IF ord = << >> THEN fs
    ELSE LoadPending(Admit(fs, [url |-> Head(ord), depth |-> db[Head(ord)].depth,
                                priority |-> db[Head(ord)].priority]),
                     Tail(ord))

\* UrlFrontier.__init__: the in-memory structures of a new frontier
EmptyFS == [seen |-> {}, queues |-> [d \in Domain |-> << >>], order |-> << >>,
            total |-> 0, app |-> [u \in URL |-> 0]]

\* a new process: UrlFrontier.__init__ and initialize on the database the
\* previous one left behind
Restart ==
    /\ restarts < MaxRestarts
    /\ restarts' = restarts + 1
    /\ \E ord \in LoadOrders : SetFS(LoadPending(EmptyFS, ord))
    /\ last_access_time' = [d \in Domain |-> None]
    /\ add_log' = [u \in URL |-> << >>]
    /\ handed' = {}
    /\ UNCHANGED <<clock, domain_locks, lock_waiters, db, cache, robotsVars, fetchVars, crawlerVars,
                   workerVars, storageVars, returned, marks, envVars,
                   configVars, shortVars, otherVars>>

NextFrontier ==
    \/ \E u \in ApiURL, depth \in 0..MaxDepth : Add(u, depth)
    \/ NextUrl
    \/ \E u \in ApiURL, success \in BOOLEAN : MarkCompleted(u, success)
    \/ Restart
    \/ Tick

SpecFrontier == Init /\ [][NextFrontier]_vars

(***************************************************************************)
(* Storage.store_page, step by step.  The coroutine suspends in the        *)
(* duplicate lookup, in the INSERT under db_lock and in _store_links under *)
(* db_lock; the two file writes are synchronous.  The metadata JSON file   *)
(* and the extracted_links table are not part of the state.                *)
(***************************************************************************)
\* the pages handed to store_page
StoreURL == {"a1", "b1", "a2"}

DbLock == [holder |-> db_lock, waiters |-> db_waiters]

SetDbLock(lk) ==
    /\ db_lock' = lk.holder
    /\ db_waiters' = lk.waiters

storageRest == <<clock, frontierVars, cache, robotsVars, fetchVars, crawlerVars, workerVars, obsVars,
                 apiVars,
    configVars, shortVars, otherVars>>

\* store_page returns ok: what the call did goes to the log
Finish(w, c, ok) ==
    /\ store_log' = Append(store_log,
                           [url |-> c.url, content |-> c.content, ok |-> ok,
                            lookup_failed |-> c.lookup_failed,
                            path |-> c.path,
                            writes |-> writes' - c.writes0,
                            dups |-> duplicate_content' - c.dups0])
    /\ store_pc' = [store_pc EXCEPT ![w] = "idle"]
    /\ call' = [call EXCEPT ![w] = NoCall]

\* store_page(page) is called: the hashes, then the lookup is awaited
StoreCall(w, u) ==
    /\ store_pc[w] = "idle"
    /\ Len(store_log) + Cardinality({v \in Workers : store_pc[v] # "idle"})
         < MaxStores
    /\ store_pc' = [store_pc EXCEPT ![w] = "lookup"]
    /\ call' = [call EXCEPT ![w] =
                  [url |-> u, content |-> BodyOf(u), dup |-> FALSE,
                   lookup_failed |-> FALSE, path |-> NoPath,
                   writes0 |-> writes, dups0 |-> duplicate_content]]
    /\ UNCHANGED <<rows, files, duplicate_content, total_stored, db_lock,
                   db_waiters, writes, store_log, envVars, storageRest>>

\* _is_duplicate_content returns (False when the query raised).  A duplicate
\* is counted and goes to _store_metadata_only; otherwise the content file
\* is written (an exception ends the call with False) and
\* _store_in_database asks for db_lock
DupLookup(w) ==
    /\ store_pc[w] = "lookup"
    /\ UNCHANGED <<rows, total_stored, storageRest>>
    /\ \E fault \in {"none", "lookup", "file"} :
         LET page == [url |-> call[w].url, content |-> call[w].content]
             dup  == fault # "lookup"
                     /\ IsDuplicateContent(rows, HashContent(page.content))
             c    == [call[w] EXCEPT !.dup = dup,
                                     !.lookup_failed = (fault = "lookup"),
                                     !.path = IF dup THEN NoPath
                                              ELSE ContentPath(page.url)]
         IN
         /\ fault = "file" => ~dup
         /\ Deviate(fault = "none")
         /\ duplicate_content' = IF dup THEN duplicate_content + 1
                                 ELSE duplicate_content
         /\ IF dup \/ fault = "file"
            THEN UNCHANGED <<files, writes>>
            ELSE /\ files' = StoreContentFile(files, page)
                 /\ writes' = writes + 1
         /\ IF fault = "file"
            THEN /\ Finish(w, c, FALSE)
                 /\ UNCHANGED <<db_lock, db_waiters>>
            ELSE /\ store_pc' = [store_pc EXCEPT ![w] = "insert"]
                 /\ call' = [call EXCEPT ![w] = c]
                 /\ SetDbLock(Acquire(w, DbLock))
                 /\ UNCHANGED store_log

\* _store_in_database under db_lock: INSERT OR REPLACE and commit, the lock
\* is released and _store_links asks for it again; an exception ends the
\* call with False
Insert(w) ==
    /\ store_pc[w] = "insert"
    /\ db_lock = w
    /\ UNCHANGED <<files, duplicate_content, total_stored, writes, storageRest>>
    /\ \E raised \in BOOLEAN :
         LET page == [url |-> call[w].url, content |-> call[w].content] IN
         /\ Deviate(~raised)
         /\ IF raised
            THEN /\ Finish(w, call[w], FALSE)
                 /\ SetDbLock(Release(DbLock))
                 /\ UNCHANGED rows
            ELSE /\ rows' = StoreInDatabase(rows, page, call[w].path)
                 /\ store_pc' = [store_pc EXCEPT ![w] = "links"]
                 /\ SetDbLock(Acquire(w, Release(DbLock)))
                 /\ UNCHANGED <<call, store_log>>

\* _store_links under db_lock ends; a page that was not a duplicate is
\* counted in total_stored, and store_page returns True
StoreLinks(w) ==
    /\ store_pc[w] = "links"
    /\ db_lock = w
    /\ total_stored' = IF call[w].dup THEN total_stored ELSE total_stored + 1
    /\ UNCHANGED <<rows, files, duplicate_content, writes, envVars,
                   storageRest>>
    /\ Finish(w, call[w], TRUE)
    /\ SetDbLock(Release(DbLock))

\* the crawler's workers call store_page concurrently
NextStorage ==
    \E w \in Workers :
        \/ \E u \in StoreURL : StoreCall(w, u)
        \/ DupLookup(w)
        \/ Insert(w)
        \/ StoreLinks(w)

SpecStorage == Init /\ [][NextStorage]_vars

\* store_page called by a caller that has awaited all earlier calls
StoreCallSeq(w, u) ==
    /\ \A v \in Workers : store_pc[v] = "idle"
    /\ StoreCall(w, u)

NextStorageSeq ==
    \E w \in Workers :
        \/ \E u \in StoreURL : StoreCallSeq(w, u)
        \/ DupLookup(w)
        \/ Insert(w)
        \/ StoreLinks(w)

SpecStorageSeq == Init /\ [][NextStorageSeq]_vars

(***************************************************************************)
(* RobotsHandler driven through its API by concurrent callers, over a few  *)
(* days.  A call suspends only in the robots.txt request.                  *)
(***************************************************************************)
InitRobots ==
    /\ InitCommon
    /\ respect_robots_txt \in BOOLEAN
    /\ max_pages = MaxPages

RobotsOp == {"can_fetch", "crawl_delay"}

\* the URLs the callers ask about, two of one domain
RobotsURL == {"a1", "a2"}

HalfDay == CacheExpiry \div 2

\* what the call op returns from the policy info
RobotsReturn(op, d, info, hit, resp) ==
    [op |-> op, domain |-> d, allowed |-> info.can_fetch,
     delay |-> GetCrawlDelay(info), cached |-> hit,
     age |-> clock - info.last_fetched, resp |-> resp]

robotsRest == <<frontierVars, fetchVars, crawlerVars, workerVars, storageVars,
                obsVars, envVars, apiVars,
    configVars, shortVars, otherVars>>

\* can_fetch(url) or get_crawl_delay(url) up to its return or its
\* suspension: with the flag off the answer is immediate; a fresh cache
\* entry is returned; an expired one is deleted and robots.txt requested
RobotsCall(w, op, u) ==
    LET d == DomainOf(u) IN
    /\ rcall[w].op = "none"
    /\ IF RobotsIgnored(respect_robots_txt)
       THEN /\ rret' = [rret EXCEPT ![w] =
                          [op |-> op, domain |-> d, allowed |-> TRUE,
                           delay |-> RequestDelay, cached |-> FALSE,
                           age |-> 0, resp |-> "none"]]
            /\ UNCHANGED <<cache, rcall>>
       ELSE IF CacheFresh(cache[d], clock)
            THEN /\ rret' = [rret EXCEPT ![w] =
                               RobotsReturn(op, d, cache[d], TRUE,
                                            robots_seen[d])]
                 /\ UNCHANGED <<cache, rcall>>
            ELSE /\ cache' = [cache EXCEPT ![d] = NoPolicy]
                 /\ rcall' = [rcall EXCEPT ![w] =
                                [NoRobotsCall EXCEPT !.op = op, !.domain = d]]
                 /\ UNCHANGED rret
    /\ UNCHANGED <<clock, respect_robots_txt, robots_seen, robotsRest>>

\* _get_robots_info resumes: the answer to the robots.txt request becomes
\* the cache entry of the domain and the call returns
RobotsFetched(w) ==
    /\ rcall[w].op # "none"
    /\ \E resp \in RobotsResponse :
         LET d    == rcall[w].domain
             info == FetchRobotsTxt(resp, clock)
         IN
         /\ cache' = [cache EXCEPT ![d] = info]
         /\ robots_seen' = [robots_seen EXCEPT ![d] = resp]
         /\ rret' = [rret EXCEPT ![w] =
                       RobotsReturn(rcall[w].op, d, info, FALSE, resp)]
    /\ rcall' = [rcall EXCEPT ![w] = NoRobotsCall]
    /\ UNCHANGED <<clock, respect_robots_txt, robotsRest>>

\* half a day passes
HalfDayPasses ==
    /\ clock < MaxHalfDays * HalfDay
    /\ clock' = clock + HalfDay
    /\ UNCHANGED <<cache, robotsVars, robotsRest>>

NextRobots ==
    \/ \E w \in Workers, op \in RobotsOp, u \in RobotsURL : RobotsCall(w, op, u)
    \/ \E w \in Workers : RobotsFetched(w)
    \/ HalfDayPasses

SpecRobots == InitRobots /\ [][NextRobots]_vars

(***************************************************************************)
(* Fetcher.fetch step by step, called by the workers for URLs the frontier *)
(* handed out, and _process_url acting on its result.                      *)
(***************************************************************************)
fetchRest == <<clock, seen_urls, domain_queues, dom_order, last_access_time,
               total_urls, domain_locks, lock_waiters, cache, robotsVars,
               storageVars, obsVars, apiVars,
    configVars, shortVars, otherVars>>

\* the URLs fetched
FetchURL == {"a1", "b1"}

Count(name) == [fetcher EXCEPT ![name] = @ + 1]

\* fetch returns: the result is kept for _process_url
Return(w, result) ==
    fcall' = [fcall EXCEPT ![w].pc = "done", ![w].result = result]

\* _process_url calls fetch for the URL it was handed: the request is
\* counted, a URL without scheme or host fails at once, any other is
\* requested
FetchCall(w, u) ==
    /\ pc[w] \in {"idle", "top"}
    /\ fetcher.total_requests < MaxFetches
    /\ db[u].status \in {"none", "pending"}
    /\ \E valid \in BOOLEAN :
         fcall' = [fcall EXCEPT ![w] =
                     IF valid
                     THEN [NoFetch EXCEPT !.pc = "get", !.url = u]
                     ELSE [NoFetch EXCEPT !.pc = "done", !.url = u,
                             !.result = CrawlResult("failed", FALSE)]]
    /\ fetcher' = Count("total_requests")
    /\ db' = UpdateUrlStatus(PersistUrl(db, LinkInfo(u, 0)), u, "in_progress")
    /\ cur' = [cur EXCEPT ![w] = LinkInfo(u, 0)]
    /\ pc' = [pc EXCEPT ![w] = "fetch"]
    /\ UNCHANGED <<fetchRest, crawlerVars, wnow, scan, links, mark_ok, envVars>>

\* session.get returns or raises: an exception is a counted failure, a
\* response is classified by its headers and status, a 200 goes on to the
\* read of its body
FetchResponse(w) ==
    /\ fcall[w].pc = "get"
    /\ \E rq \in FetchAnswer :
         LET c == IF rq.net = "response" THEN Classify(rq) ELSE "failed" IN
         /\ fcall' = [fcall EXCEPT
                        ![w].rq = rq,
                        ![w].pc = IF c = "read" THEN "read" ELSE "done",
                        ![w].result = IF c = "read" THEN NoResult
                                      ELSE CrawlResult(c, FALSE)]
         /\ fetcher' = IF \/ rq.net # "response"
                          \/ /\ IsAllowedContentType(rq.ctype)
                             /\ rq.clen.kind = "malformed"
                       THEN Count("failed_requests")
                       ELSE fetcher
    /\ UNCHANGED <<fetchRest, db, crawlerVars, workerVars, envVars>>

\* _read_content_safely, one turn of `async for chunk`: the chunk is counted
\* and, if the count is over the cap, the read returns None and the fetch
\* fails; at the end of the stream the body is decoded and the fetch
\* succeeds; an exception in the read or the decoding is a None as well
ReadChunk(w) ==
    /\ fcall[w].pc = "read"
    /\ \E raised \in BOOLEAN :
         LET left  == fcall[w].rq.body - fcall[w].count
             chunk == IF left < ChunkSize THEN left ELSE ChunkSize
         IN
         IF raised
         THEN /\ Return(w, CrawlResult("failed", FALSE))
              /\ UNCHANGED fetcher
         ELSE IF left = 0
         THEN /\ Return(w, CrawlResult("success", TRUE))
              /\ fetcher' = Count("successful_requests")
         ELSE IF OverCap(fcall[w].count + chunk)
         THEN /\ fcall' = [fcall EXCEPT
                             ![w].count = @ + chunk,
                             ![w].pc = "done",
                             ![w].result = CrawlResult("failed", FALSE)]
              /\ UNCHANGED fetcher
         ELSE /\ fcall' = [fcall EXCEPT ![w].count = @ + chunk,
                                        ![w].kept = @ + chunk]
              /\ UNCHANGED fetcher
    /\ UNCHANGED <<fetchRest, db, crawlerVars, workerVars, envVars>>

\* fetch has returned: _process_url acts on the result
FetchReturn(w) ==
    /\ pc[w] = "fetch"
    /\ fcall[w].pc = "done"
    /\ \E parsed \in BOOLEAN :
         /\ Deviate(parsed)
         /\ fcall[w].result.status # "success" => parsed
         /\ ProcessResult(w, fcall[w].result.status, parsed)
    /\ fcall' = [fcall EXCEPT ![w].pc = "idle", ![w].rq = NoAnswer,
                              ![w].result = NoResult]
    /\ UNCHANGED <<fetchRest, db, fetcher, is_running, pages_stored, cur, wnow,
                   scan>>

NextFetcher ==
    \/ \E w \in Workers, u \in FetchURL : FetchCall(w, u)
    \/ \E w \in Workers :
         \/ FetchResponse(w)
         \/ ReadChunk(w)
         \/ FetchReturn(w)
         \/ StoreDone(w)
         \/ PersistDone(w)
         \/ Mark(w)

SpecFetcher == Init /\ [][NextFetcher]_vars

(***************************************************************************)
(* The URL shortener.  The handlers are called from the threads of the     *)
(* test client, so that their steps interleave: every SQL statement is one *)
(* step, and generate_id runs under the generator's lock.                  *)
(***************************************************************************)
shortRest == <<clock, frontierVars, cache, robotsVars, fetchVars, crawlerVars,
               workerVars, storageVars, obsVars, envVars, apiVars,
               configVars, otherVars>>

InitShort ==
    /\ InitCrawler
    /\ respect_robots_txt = TRUE
    /\ max_pages = MaxPages
    /\ \E generator \in {NewGenerator, BusyGenerator} :
         InitShortener(generator)
    /\ InitOther

\* the requests sent in the run and answered
Answered == {i \in 1..Len(responses) : responses[i].sent}

\* a thread may send a further request
MaySend(t) ==
    /\ req[t].pc = "idle"
    /\ Cardinality(Answered)
         + Cardinality({v \in Threads : req[v].pc # "idle"})
         < MaxRequests

\* the caller has its answer
Respond(t, status, id, short_url, clicks) ==
    /\ responses' =
          Append(responses,
                 Response(TRUE, req[t], status, id, short_url, clicks))
    /\ req' = [req EXCEPT ![t] = NoRequest]

\* the rows of url_mappings selected by a column
ByShortUrl(short_url) ==
    SelectSeq(url_mappings, LAMBDA r : r.short_url = short_url)
ByOriginalUrl(original_url) ==
    SelectSeq(url_mappings, LAMBDA r : r.original_url = original_url)

\* a lookup that finds no row
NoShortUrl(original_url) == NoCode

\* URLDatabase.get_short_url: the latest row of the URL (created_at DESC,
\* LIMIT 1), or None
GetShortUrl(original_url) ==
    LET found == ByOriginalUrl(original_url) IN
    IF found = << >> THEN NoCode ELSE found[Len(found)].short_url

\* a generator whose lock is taken by whoever asks for it
LockIgnored(generator) == TRUE

\* threading.Lock: `with self.lock` goes on when nobody holds the lock
LockOpen(generator) == generator.lock = 0

\* `if self.sequence == 0` after the increment: the 12 bits are used up
Overflows(sequence) == sequence = 0

\* one millisecond passes
Millisecond ==
    /\ now_ms < MaxMs
    /\ now_ms' = now_ms + 1
    /\ UNCHANGED <<id_generator, url_mappings, req, responses, b62, shortRest>>

\* id_generator.generate_id() is called directly
GenerateCall(t) ==
    /\ MaySend(t)
    /\ req' = [req EXCEPT ![t] = [NoRequest EXCEPT !.pc = "generate",
                                                   !.op = "generate_id"]]
    /\ UNCHANGED <<now_ms, id_generator, url_mappings, responses, b62,
                   shortRest>>

\* POST /api/v1/data/shorten: get_short_url answers with the existing code,
\* or the handler goes on to generate an ID
ShortenCall(t, original_url) ==
    /\ MaySend(t)
    /\ LET r == [NoRequest EXCEPT !.op = "shorten", !.arg = original_url]
           existing_short == GetShortUrl(original_url) IN
       IF existing_short # NoCode
       THEN /\ responses' = Append(responses,
                                   Response(TRUE, r, 200, 0, existing_short, 0))
            /\ UNCHANGED req
       ELSE /\ req' = [req EXCEPT ![t] = [r EXCEPT !.pc = "generate"]]
            /\ UNCHANGED responses
    /\ UNCHANGED <<now_ms, id_generator, url_mappings, b62, shortRest>>

\* generate_id: the lock is taken and the clock is read
GenAcquire(t) ==
    /\ req[t].pc = "generate"
    /\ LockOpen(id_generator)
    /\ id_generator' = [id_generator EXCEPT !.lock = t]
    /\ req' = [req EXCEPT ![t].pc = "stamped", ![t].timestamp = now_ms]
    /\ UNCHANGED <<now_ms, url_mappings, responses, b62, shortRest>>

\* generate_id: a timestamp before last_timestamp raises (the lock is
\* released, the handler answers 500); within the same millisecond the
\* sequence goes up by one modulo 2^12 and, back at 0, the call waits for the
\* next millisecond; in a new millisecond the sequence starts again at 0
GenSequence(t) ==
    /\ req[t].pc = "stamped"
    /\ LET timestamp == req[t].timestamp
           sequence == (id_generator.sequence + 1) % (SequenceMask + 1) IN
       IF timestamp < id_generator.last_timestamp
       THEN /\ id_generator' = [id_generator EXCEPT !.lock = 0]
            /\ Respond(t, 500, 0, NoCode, 0)
       ELSE /\ UNCHANGED responses
            /\ IF timestamp = id_generator.last_timestamp
               THEN /\ id_generator' = [id_generator EXCEPT
                                           !.sequence = sequence]
                    /\ req' = [req EXCEPT ![t].pc =
                                 IF Overflows(sequence) THEN "spin"
                                 ELSE "construct"]
               ELSE /\ id_generator' = [id_generator EXCEPT !.sequence = 0]
                    /\ req' = [req EXCEPT ![t].pc = "construct"]
    /\ UNCHANGED <<now_ms, url_mappings, b62, shortRest>>

\* generate_id: `while timestamp <= self.last_timestamp` reads the clock
\* until it has moved on
GenSpin(t) ==
    /\ req[t].pc = "spin"
    /\ now_ms > id_generator.last_timestamp
    /\ req' = [req EXCEPT ![t].pc = "construct", ![t].timestamp = now_ms]
    /\ UNCHANGED <<now_ms, id_generator, url_mappings, responses, b62,
                   shortRest>>

\* generate_id: last_timestamp is written, the ID is constructed and the
\* lock released; a direct caller has its ID, the handler goes on to
\* store_url
GenReturn(t) ==
    /\ req[t].pc = "construct"
    /\ LET id_value == IdValue(req[t].timestamp, id_generator.sequence) IN
       /\ id_generator' = [id_generator EXCEPT
                              !.last_timestamp = req[t].timestamp,
                              !.lock = 0]
       /\ IF req[t].op = "generate_id"
          THEN Respond(t, 200, id_value, NoCode, 0)
          ELSE /\ req' = [req EXCEPT ![t].pc = "store", ![t].id = id_value]
               /\ UNCHANGED responses
    /\ UNCHANGED <<now_ms, url_mappings, b62, shortRest>>

\* shorten_url: the ID is encoded and store_url inserts the row; an
\* IntegrityError (id is the PRIMARY KEY, short_url is UNIQUE) becomes a
\* ValueError and the handler answers 500
StoreUrl(t) ==
    /\ req[t].pc = "store"
    /\ LET short_code == encode(req[t].id) IN
       IF \E i \in 1..Len(url_mappings) :
             \/ url_mappings[i].id = req[t].id
             \/ url_mappings[i].short_url = short_code
       THEN /\ Respond(t, 500, req[t].id, NoCode, 0)
            /\ UNCHANGED url_mappings
       ELSE /\ url_mappings' =
                 Append(url_mappings,
                        [id |-> req[t].id, short_url |-> short_code,
                         original_url |-> req[t].arg, click_count |-> 0])
            /\ Respond(t, 200, req[t].id, short_code, 0)
    /\ UNCHANGED <<now_ms, id_generator, b62, shortRest>>

\* the codes asked for: those handed out, and one that never is
Codes == {url_mappings[i].short_url : i \in 1..Len(url_mappings)}
           \cup {encode(0)}

\* GET /api/v1/{short_url}: get_original_url finds no row and the handler
\* answers 404, or the handler goes on to increment_click_count
RedirectCall(t) ==
    /\ MaySend(t)
    /\ \E short_url \in Codes :
         LET r == [NoRequest EXCEPT !.op = "redirect", !.arg = short_url] IN
         IF ByShortUrl(short_url) = << >>
         THEN /\ responses' = Append(responses,
                                     Response(TRUE, r, 404, 0, NoCode, 0))
              /\ UNCHANGED req
         ELSE /\ req' = [req EXCEPT ![t] = [r EXCEPT !.pc = "click"]]
              /\ UNCHANGED responses
    /\ UNCHANGED <<now_ms, id_generator, url_mappings, b62, shortRest>>

\* an UPDATE without its WHERE clause
IncrementEveryCount(mappings, short_url) ==
    [i \in 1..Len(mappings) |-> [mappings[i] EXCEPT !.click_count = @ + 1]]

\* URLDatabase.increment_click_count: UPDATE ... SET click_count =
\* click_count + 1 WHERE short_url = ?
IncrementClickCount(mappings, short_url) ==
    [i \in 1..Len(mappings) |->
        IF mappings[i].short_url = short_url
        THEN [mappings[i] EXCEPT !.click_count = @ + 1]
        ELSE mappings[i]]

\* redirect_url: the click is counted and the 302 is sent
Click(t) ==
    /\ req[t].pc = "click"
    /\ url_mappings' = IncrementClickCount(url_mappings, req[t].arg)
    /\ Respond(t, 302, 0, NoCode, 0)
    /\ UNCHANGED <<now_ms, id_generator, b62, shortRest>>

\* GET /api/v1/stats/{short_url}: 404, or the row's total_clicks
StatsCall(t) ==
    /\ MaySend(t)
    /\ \E short_url \in Codes :
         LET r == [NoRequest EXCEPT !.op = "stats", !.arg = short_url]
             found == ByShortUrl(short_url) IN
         responses' = Append(responses,
                        IF found = << >>
                        THEN Response(TRUE, r, 404, 0, NoCode, 0)
                        ELSE Response(TRUE, r, 200, 0, short_url,
                                      found[1].click_count))
    /\ UNCHANGED <<now_ms, id_generator, url_mappings, req, b62, shortRest>>

NextShort ==
    \/ \E t \in Threads :
         \/ GenerateCall(t)
         \/ \E original_url \in OriginalURL : ShortenCall(t, original_url)
         \/ GenAcquire(t)
         \/ GenSequence(t)
         \/ GenSpin(t)
         \/ GenReturn(t)
         \/ StoreUrl(t)
         \/ RedirectCall(t)
         \/ Click(t)
         \/ StatsCall(t)
    \/ Millisecond

SpecShort == InitShort /\ [][NextShort]_vars

\* the requests of a caller that waits for each answer before it sends the
\* next request
Quiet == \A t \in Threads : req[t].pc = "idle"
GenerateCallSeq(t) == Quiet /\ GenerateCall(t)
ShortenCallSeq(t, original_url) == Quiet /\ ShortenCall(t, original_url)
RedirectCallSeq(t) == Quiet /\ RedirectCall(t)
StatsCallSeq(t) == Quiet /\ StatsCall(t)

NextShortSeq ==
    \/ \E t \in Threads :
         \/ GenerateCallSeq(t)
         \/ \E original_url \in OriginalURL : ShortenCallSeq(t, original_url)
         \/ GenAcquire(t)
         \/ GenSequence(t)
         \/ GenSpin(t)
         \/ GenReturn(t)
         \/ StoreUrl(t)
         \/ RedirectCallSeq(t)
         \/ Click(t)
         \/ StatsCallSeq(t)
    \/ Millisecond

SpecShortSeq == InitShort /\ [][NextShortSeq]_vars

(***************************************************************************)
(* Base62Converter on its own: a number is encoded, the string decoded.    *)
(***************************************************************************)
\* the numbers encoded: the small ones, and the IDs of the generator
Numbers ==
    (0..MaxNum) \cup {IdValue(ms, sequence) :
                         ms \in 0..MaxMs, sequence \in {0, SequenceMask}}

\* Base62Converter.encode(num)
EncodeCall ==
    /\ b62.pc = "idle"
    /\ \E num \in Numbers :
         b62' = [pc |-> "encoded", num |-> num, encoded |-> encode(num),
                 decoded |-> 0]
    /\ UNCHANGED <<now_ms, id_generator, url_mappings, req, responses,
                   shortRest>>

\* Base62Converter.decode(encoded)
DecodeCall ==
    /\ b62.pc = "encoded"
    /\ b62' = [b62 EXCEPT !.pc = "decoded", !.decoded = decode(b62.encoded)]
    /\ UNCHANGED <<now_ms, id_generator, url_mappings, req, responses,
                   shortRest>>

NextBase62 == EncodeCall \/ DecodeCall

SpecBase62 == Init /\ [][NextBase62]_vars

(***************************************************************************)
(* Parser._normalize_url on its own: a URL is normalised, then the result  *)
(* is normalised once more.                                                *)
(***************************************************************************)
allButOther == <<clock, frontierVars, cache, robotsVars, fetchVars,
                 crawlerVars, workerVars, storageVars, obsVars, envVars,
                 apiVars, configVars, shortVars>>

\* _normalize_url(url)
NormalizeCall ==
    /\ norm.pc = "idle"
    /\ \E url \in UrlStrings :
         norm' = [pc |-> "once", url |-> url,
                  once |-> NormalizeUrlString(url), twice |-> << >>]
    /\ UNCHANGED <<allButOther, crawls, pool, serviceVars>>

\* _normalize_url of the result
NormalizeAgain ==
    /\ norm.pc = "once"
    /\ norm' = [norm EXCEPT !.pc = "twice",
                            !.twice = NormalizeUrlString(norm.once)]
    /\ UNCHANGED <<allButOther, crawls, pool, serviceVars>>

(***************************************************************************)
(* crawl() called more than once on one WebCrawler, with stop().  Each     *)
(* call that gets past its guard starts its own worker tasks on the shared *)
(* frontier; what a worker does with a page is left to the crawl           *)
(* specification: here a page is fetched and has no links.                 *)
(***************************************************************************)
\* the argument None, which is not iterable
NoneArg == <<"None">>

\* the seed_urls arguments
SeedArgs == SeedLists \cup {<<"a2">>, NoneArg}

reentryRest == <<domain_locks, lock_waiters, cache, robotsVars, fetchVars,
                 pages_crawled, pages_stored, stats, workerVars, storageVars,
                 returned, marks, envVars, apiVars, configVars, shortVars,
                 norm, serviceVars>>

\* `if self.is_running: raise RuntimeError("Crawler is already running")`
AlreadyRunning(running) == running

\* crawl(seed_urls) is called: the guard raises, or the flag is set, the
\* seeds are added and the workers are started; iterating None raises
\* inside the try block, and the finally clause clears the flag
CrawlCall(c) ==
    /\ crawls[c] = "none"
    /\ \E seeds \in SeedArgs :
         IF AlreadyRunning(is_running)
         THEN /\ crawls' = [crawls EXCEPT ![c] = "refused"]
              /\ UNCHANGED <<is_running, pool, seen_urls, domain_queues,
                             dom_order, total_urls, appended, db>>
         ELSE IF seeds = NoneArg
         THEN /\ crawls' = [crawls EXCEPT ![c] = "raised"]
              /\ is_running' = FALSE
              /\ UNCHANGED <<pool, seen_urls, domain_queues, dom_order,
                             total_urls, appended, db>>
         ELSE /\ crawls' = [crawls EXCEPT ![c] = "gather"]
              /\ is_running' = TRUE
              /\ LET st == AddSeeds([fs |-> FS, store |-> db], seeds) IN
                   /\ SetFS(st.fs)
                   /\ db' = st.store
              /\ pool' = [pool EXCEPT ![c] = [w \in Workers |-> "loop"]]
    /\ UNCHANGED <<clock, last_access_time, reentryRest>>

\* _crawler_worker of call c at its loop head: it leaves the loop when the
\* flag is false, takes the next eligible URL, or goes to sleep
PoolTop(c, w) ==
    /\ pool[c][w] = "loop"
    /\ LET j == NextEligible(1, clock) IN
       IF ~is_running
       THEN /\ pool' = [pool EXCEPT ![c][w] = "done"]
            /\ UNCHANGED <<domain_queues, last_access_time, total_urls, db>>
       ELSE IF j = 0
       THEN /\ pool' = [pool EXCEPT ![c][w] = "sleep"]
            /\ UNCHANGED <<domain_queues, last_access_time, total_urls, db>>
       ELSE /\ pool' = [pool EXCEPT ![c][w] = "held"]
            /\ Dequeue(dom_order[j], clock)
            /\ db' = UpdateUrlStatus(db, Head(domain_queues[dom_order[j]]).url,
                                     "in_progress")
    /\ UNCHANGED <<clock, is_running, crawls, seen_urls, dom_order, appended,
                   reentryRest>>

\* the sleep is over: the worker leaves the loop if the frontier is empty
PoolWake(c, w) ==
    /\ pool[c][w] = "sleep"
    /\ pool' = [pool EXCEPT ![c][w] = IF IsEmpty THEN "done" ELSE "loop"]
    /\ UNCHANGED <<clock, is_running, crawls, frontierVars, appended,
                   reentryRest>>

\* `async with self.crawl_semaphore`: the one semaphore of the crawler
\* admits max_concurrent_requests workers, of whatever call
PoolEnter(c, w) ==
    /\ pool[c][w] = "held"
    /\ Cardinality({x \in Calls \X Workers : pool[x[1]][x[2]] = "url"})
         < NumWorkers
    /\ pool' = [pool EXCEPT ![c][w] = "url"]
    /\ UNCHANGED <<clock, is_running, crawls, frontierVars, appended,
                   reentryRest>>

\* _process_url is through with its page and the semaphore is released
PoolProcessed(c, w) ==
    /\ pool[c][w] = "url"
    /\ pool' = [pool EXCEPT ![c][w] = "loop"]
    /\ UNCHANGED <<clock, is_running, crawls, frontierVars, appended,
                   reentryRest>>

\* asyncio.gather has all the workers of call c: the statistics are
\* returned and the finally clause clears the flag
CrawlFinally(c) ==
    /\ crawls[c] = "gather"
    /\ \A w \in Workers : pool[c][w] = "done"
    /\ crawls' = [crawls EXCEPT ![c] = "returned"]
    /\ is_running' = FALSE
    /\ UNCHANGED <<clock, pool, frontierVars, appended, reentryRest>>

NextReentry ==
    \/ \E c \in Calls :
         \/ CrawlCall(c)
         \/ CrawlFinally(c)
         \/ \E w \in Workers :
              \/ PoolTop(c, w)
              \/ PoolWake(c, w)
              \/ PoolEnter(c, w)
              \/ PoolProcessed(c, w)
    \/ Stop
    \/ Tick

SpecReentry == Init /\ [][NextReentry]_vars

NextNormalize == NormalizeCall \/ NormalizeAgain

SpecNormalize == Init /\ [][NextNormalize]_vars

(***************************************************************************)
(* Properties of one crawl run.                                            *)
(***************************************************************************)
Card(S) == Cardinality(S)

\* the workers that hold a URL handed out by get_next_url
Holding(u) ==
    {w \in Workers : cur[w].url = u
                      /\ pc[w] \in {"robots", "fetch", "store", "persist", "mark"}}

\* C2: under every interleaving of the workers of one crawl run, each URL is
\* appended to a domain queue at most once and handed out by get_next_url at
\* most once, however many pages link to it
C2_EnqueuedAtMostOnce ==
    \A u \in URL :
        /\ appended[u] <= 1
        /\ returned[u] <= 1
        /\ Card({i \in 1..Len(domain_queues[DomainOf(u)]) :
                    domain_queues[DomainOf(u)][i].url = u}) <= 1

\* C2 witness: one worker has admitted a2 (linked from a1) and is suspended
\* before its INSERT lands, while the other worker has gone through the
\* links of b1, which also links a2, and a2 was appended once
C2_Witness ==
    \E w1, w2 \in Workers :
        /\ pc[w1] = "persist" /\ cur[w1].url = "a1" /\ Head(links[w1]) = "a2"
        /\ db["a2"].status = "none"
        /\ pc[w2] = "mark" /\ cur[w2].url = "b1" /\ mark_ok[w2] = "success"
        /\ deviations = 0
        /\ appended["a2"] = 1

Max(a, b) == IF a > b THEN a ELSE b

\* the Crawl-delay of the robots.txt that domain d served last
DeclaredDelay(d) == IF robots_seen[d] = "delay" THEN RobotsDelay ELSE 0

\* C3: in every step that takes a URL of domain d off its queue, the time
\* since the previous dequeue of d is at least the larger of request_delay
\* and the Crawl-delay of d's robots.txt
C3_Politeness ==
    [][\A d \in Domain :
          (Len(domain_queues'[d]) < Len(domain_queues[d])
             /\ last_access_time[d] # None)
          => last_access_time'[d] - last_access_time[d]
               >= Max(RequestDelay, DeclaredDelay(d))]_vars

\* C5: every record of the frontier, queued, held by a worker or durable,
\* has a depth of at most max_depth
C5_DepthBound ==
    /\ \A u \in URL : db[u].depth <= MaxDepth
    /\ \A d \in Domain : \A i \in 1..Len(domain_queues[d]) :
          domain_queues[d][i].depth <= MaxDepth
    /\ \A w \in Workers : cur[w].depth <= MaxDepth

\* C5 witness: the page a2, found at depth max_depth, was fetched, parsed and
\* marked successful, and its link b2 was not admitted
C5_Witness ==
    /\ db["a2"].depth = MaxDepth
    /\ marks["a2"] = <<TRUE>>
    /\ deviations = 0
    /\ "b2" \notin seen_urls
    /\ \A w \in Workers : pc[w] = "returned"

\* C6: pages_crawled never exceeds max_pages
C6_PageBudget == pages_crawled <= MaxPages

\* C7: every URL handed out by get_next_url is marked completed exactly once
\* when its worker is through with it; a success mark goes with one
\* increment of pages_crawled and a failed mark with one increment of
\* robots_denied, filtered or errors, so the four counters sum to the number
\* of URLs marked
C7_OneTerminalOutcome ==
    LET succ == {u \in URL : marks[u] = <<TRUE>>}
        fail == {u \in URL : marks[u] = <<FALSE>>}
        crawledAhead == {w \in Workers :
                           \/ pc[w] \in {"store", "persist"}
                           \/ pc[w] = "mark" /\ mark_ok[w] = "success"}
        failedAhead == {w \in Workers : pc[w] = "mark" /\ mark_ok[w] = "failed"}
    IN
    /\ \A u \in URL : Len(marks[u]) + Card(Holding(u)) = returned[u]
    /\ \A u \in URL : Len(marks[u]) <= 1
    /\ pages_crawled = Card(succ) + Card(crawledAhead)
    /\ stats.robots_denied + stats.filtered + stats.errors
         = Card(fail) + Card(failedAhead)
    /\ (\A w \in Workers : pc[w] \in {"top", "sleep", "done", "returned"})
         => pages_crawled + stats.robots_denied + stats.filtered + stats.errors
              = Card(succ \cup fail)

\* C7 witness: the run is over with one URL marked failed after a filtered
\* fetch and another marked success
C7_Witness ==
    /\ \A w \in Workers : pc[w] = "returned"
    /\ stats.filtered = 1
    /\ \E u \in URL : marks[u] = <<FALSE>>
    /\ \E u \in URL : marks[u] = <<TRUE>>

\* C10: at no time are two robots.txt requests for one domain in flight
C10_OneFetchPerDomain ==
    \A w1, w2 \in Workers :
        (w1 # w2 /\ pc[w1] = "robots" /\ pc[w2] = "robots")
        => DomainOf(cur[w1].url) # DomainOf(cur[w2].url)

(***************************************************************************)
(* Properties of the frontier API.                                         *)
(***************************************************************************)
QueueEntries(u) ==
    {i \in 1..Len(domain_queues[DomainOf(u)]) :
        domain_queues[DomainOf(u)][i].url = u}

StatusRank(st) ==
    CASE st = "none" -> 0
      [] st = "pending" -> 1
      [] st = "in_progress" -> 2
      [] OTHER -> 3

C4_OneWayStatus ==
    [][\A u \in URL :
          /\ db[u].status \in {"success", "failed"}
               => db'[u].status = db[u].status
          /\ StatusRank(db'[u].status) >= StatusRank(db[u].status)]_vars

(***************************************************************************)
(* Properties of the storage layer.                                        *)
(***************************************************************************)
\* C8: with no I/O failing, whatever the interleaving of the store_page
\* calls, no two content files hold the same body
C8_OneBlobPerHash ==
    deviations = 0 =>
        \A u, v \in URL :
            (files[u] # NoFile /\ files[u] = files[v]) => u = v

SameBodyPair(i) ==
    /\ store_log[i].content = store_log[i + 1].content
    /\ store_log[i].url # store_log[i + 1].url
    /\ store_log[i].ok /\ store_log[i + 1].ok
    /\ ~store_log[i + 1].lookup_failed

FailOpen == {"404", "status", "timeout", "unparsable"}

\* C11: a domain whose robots.txt request ended in a 404, another non-200
\* status, a timeout or network error, or a body that fails to parse, has a
\* policy that allows, and every can_fetch answered from it returns true
C11_FailOpen ==
    /\ \A d \in Domain :
          (cache[d].cached /\ robots_seen[d] \in FailOpen) => cache[d].can_fetch
    /\ \A w \in Workers :
          (rret[w].op = "can_fetch" /\ rret[w].resp \in FailOpen)
          => rret[w].allowed

\* C11 witness: robots.txt of a domain gave a 404, and a later can_fetch for
\* that domain was answered from the cache
C11_Witness ==
    \E w \in Workers :
        /\ rret[w].op = "can_fetch"
        /\ rret[w].resp = "404"
        /\ rret[w].cached
        /\ rret[w].allowed

\* C12: a policy returned from the cache without a request is younger than
\* the 24 hours of cache_expiry, a policy returned after a request is the
\* one just fetched, and a call that finds an entry of that age or older
\* deletes it and requests robots.txt
C12_CacheFreshness ==
    /\ [](\A w \in Workers :
            /\ (rret[w].op # "none" /\ rret[w].cached)
                 => rret[w].age < CacheExpiry
            /\ (rret[w].op # "none" /\ ~rret[w].cached) => rret[w].age = 0)
    /\ [][\A w \in Workers :
            (rcall[w].op = "none" /\ rret'[w] # rret[w] /\ rret'[w].cached)
            => LET d == rret'[w].domain IN
               cache[d].cached /\ clock - cache[d].last_fetched < CacheExpiry]_vars
    /\ [][\A d \in Domain :
            (cache[d].cached /\ clock - cache[d].last_fetched >= CacheExpiry
               /\ cache'[d] # cache[d])
            => \/ cache'[d] = NoPolicy
               \/ cache'[d].cached /\ cache'[d].last_fetched = clock]_vars

\* C12 witness: one caller was answered from a cache entry half a day old,
\* and a day after the fetch another caller found the entry expired, deleted
\* it and awaits the new robots.txt
C12_Witness ==
    \E w1, w2 \in Workers :
        /\ rret[w1].cached /\ rret[w1].age = HalfDay
        /\ rcall[w2].op # "none" /\ rcall[w2].domain = rret[w1].domain
        /\ cache[rret[w1].domain] = NoPolicy
        /\ robots_seen[rret[w1].domain] # "none"

\* C13: with respect_robots_txt off, can_fetch returns true, no robots.txt
\* request is made and the cache stays as it was
C13_RobotsIgnored ==
    ~respect_robots_txt =>
        /\ cache = [d \in Domain |-> NoPolicy]
        /\ \A w \in Workers : rcall[w].op = "none"
        /\ \A d \in Domain : robots_seen[d] = "none"
        /\ \A w \in Workers : rret[w].op = "can_fetch" => rret[w].allowed

\* C13 witness: can_fetch has returned with the flag off
C13_Witness ==
    /\ ~respect_robots_txt
    /\ \E w \in Workers : rret[w].op = "can_fetch" /\ rret[w].allowed

\* C14: get_crawl_delay returns the larger of request_delay and the
\* Crawl-delay that the robots.txt of the domain declares, and
\* request_delay when it declares none
C14_CrawlDelay ==
    \A w \in Workers :
        (rret[w].op = "crawl_delay" /\ respect_robots_txt)
        => /\ rret[w].delay >= RequestDelay
           /\ rret[w].delay
                = Max(RequestDelay,
                      IF rret[w].resp = "delay" THEN RobotsDelay ELSE 0)

(***************************************************************************)
(* Properties of the fetcher.                                              *)
(***************************************************************************)
Typed == {"success", "filtered", "failed", "robots_denied"}

\* C15: whatever the URL and whatever the network answers, a fetch that has
\* returned has returned a typed result: a success with its page, or a
\* filtered or failed result without one
C15_FetchTotal ==
    \A w \in Workers :
        fcall[w].pc = "done"
        => /\ fcall[w].result.status \in Typed
           /\ fcall[w].result.page <=> fcall[w].result.status = "success"

\* C16: a body is read only up to the first chunk that takes the byte count
\* over max_file_size; the fetch then fails without a page, the page is not
\* stored, and the URL is marked failed in the frontier
C16_OversizeAbort ==
    \A w \in Workers :
        /\ fcall[w].pc = "read"
             => fcall[w].count <= MaxFileSize /\ fcall[w].kept = fcall[w].count
        /\ fcall[w].count > MaxFileSize
             => /\ fcall[w].kept <= MaxFileSize
                /\ fcall[w].count <= fcall[w].kept + ChunkSize
                /\ fcall[w].pc = "done"
                     => fcall[w].result = CrawlResult("failed", FALSE)
                /\ pc[w] \notin {"store", "persist"}
                /\ pc[w] = "mark" => mark_ok[w] = "failed"
                /\ pc[w] = "top" => db[fcall[w].url].status = "failed"

\* C16 witness: one 200 response declared a Content-Length within the cap
\* and its fetch failed when the body went over it, and the URL of another
\* such fetch is marked failed
C16_Witness ==
    \E w1, w2 \in Workers :
        /\ fcall[w1].pc = "done"
        /\ fcall[w1].rq.status = 200
        /\ fcall[w1].rq.clen.kind = "number"
        /\ fcall[w1].count > MaxFileSize
        /\ fcall[w1].result.status = "failed"
        /\ pc[w2] = "top"
        /\ fcall[w2].count > MaxFileSize
        /\ db[fcall[w2].url].status = "failed"

\* C17: a response whose content type is missing or outside the allowlist
\* is filtered whatever its status; otherwise a response whose declared
\* Content-Length is over max_file_size is filtered, whatever its status and
\* without a byte of the body read; the status decides only for the rest
C17_Precedence ==
    \A w \in Workers :
        LET c       == fcall[w]
            allowed == c.rq.ctype # << >>
                         /\ Head(c.rq.ctype) \in AllowedContentTypes
            over    == c.rq.clen.kind = "number" /\ c.rq.clen.n > MaxFileSize
        IN
        c.rq.net = "response"
        => /\ ~allowed
                => c.pc = "done" /\ c.result.status = "filtered" /\ c.count = 0
           /\ (allowed /\ over)
                => c.pc = "done" /\ c.result.status = "filtered" /\ c.count = 0
           /\ (c.pc = "read" \/ c.result.status # "filtered")
                => allowed /\ ~over
           /\ c.pc = "read" => c.rq.status = 200

\* C17 witness: a 404 with an allowed content type and a declared length
\* over the cap was filtered, and a 200 without content type was filtered
C17_Witness ==
    \E w1, w2 \in Workers :
        /\ fcall[w1].pc = "done"
        /\ fcall[w1].rq.status = 404
        /\ fcall[w1].rq.ctype = <<"text/html", "charset=utf-8">>
        /\ fcall[w1].rq.clen.n > MaxFileSize
        /\ fcall[w1].result.status = "filtered"
        /\ fcall[w2].pc = "done"
        /\ fcall[w2].rq.status = 200
        /\ fcall[w2].rq.ctype = << >>
        /\ fcall[w2].result.status = "filtered"

(***************************************************************************)
(* Properties of the frontier's hand-out.                                  *)
(***************************************************************************)
\* C18: whenever get_next_url takes an entry from the queue of a domain, no
\* entry of that queue has a higher priority than the one taken
C18_PriorityOrder ==
    [][\A d \in Domain :
          (restarts' = restarts /\ Len(domain_queues'[d]) < Len(domain_queues[d]))
          => \A i \in 1..Len(domain_queues[d]) :
                domain_queues[d][i].priority <= Head(domain_queues[d]).priority]_vars

\* C19: while a worker holds a URL that get_next_url returned to it, the row
\* of the URL has status in_progress, whatever the moment at which the
\* INSERT of the add_url that queued it lands; and once mark_completed has
\* run for a URL its row has status success or failed
C19_InProgressWhileHeld ==
    /\ \A w \in Workers :
          pc[w] \in {"robots", "fetch", "store", "persist", "mark"}
          => db[cur[w].url].status = "in_progress"
    /\ \A u \in URL :
          marks[u] # << >> => db[u].status \in {"success", "failed"}

(***************************************************************************)
(* Termination of the crawl.                                               *)
(***************************************************************************)
\* C20: every crawl ends: all workers leave their loops and crawl()
\* returns the statistics
C20_CrawlTerminates == <>(\A w \in Workers : pc[w] = "returned")

(***************************************************************************)
(* Stopping the crawl.                                                     *)
(***************************************************************************)
\* a worker between the return of get_next_url and that of mark_completed
InPipeline == {"robots", "fetch", "store", "persist", "mark"}

RECURSIVE SumOver(_, _)
SumOver(f, S) ==
    IF S = {} THEN 0
    ELSE LET x == CHOOSE y \in S : TRUE IN f[x] + SumOver(f, S \ {x})

\* the pages attempted: the URLs get_next_url handed to the workers
Attempted == SumOver(returned, URL)

\* UrlFrontier.get_stats: SELECT status, COUNT(*) ... GROUP BY status
FrontierCount(status) == Card({u \in URL : db[u].status = status})

\* crawl() has returned and every answer of the outside world was the
\* plain successful one
ScenarioDone ==
    /\ \A w \in Workers : pc[w] = "returned"
    /\ deviations = 0

\* C22: when the crawl from the one seed has returned, it has appended the
\* seed and exactly two further URLs, has handed out at most three pages,
\* has left the frontier empty, and the frontier's success and failed
\* counts sum to the number of pages handed out
C22_EndToEnd ==
    ScenarioDone =>
        /\ SumOver(appended, URL) = 1 + 2
        /\ Attempted <= 3
        /\ total_urls = 0
        /\ \A d \in Domain : domain_queues[d] = << >>
        /\ FrontierCount("success") + FrontierCount("failed") = Attempted

(***************************************************************************)
(* Normalisation and the seen set.                                         *)
(***************************************************************************)
\* C23: the frontier admits at most one spelling of a URL, whether the
\* spellings come as seeds or as links: of two URLs in the seen set that
\* differ only in the case of the host or in a fragment, add_url has
\* refused the second
C23_SeenNormalized ==
    \A u, v \in seen_urls : NormalizeUrl(u) = NormalizeUrl(v) => u = v

(***************************************************************************)
(* Failures inside the pipeline of one page.                               *)
(***************************************************************************)
\* the step of worker w in which a fetched page fails to parse: the page is
\* counted as crawled and the answer deviates from the plain one
ParseRaised(w) ==
    /\ pc[w] = "fetch"
    /\ pc'[w] # "fetch"
    /\ pages_crawled' = pages_crawled + 1
    /\ deviations' = deviations + 1

\* C24: a page whose parse raised goes on to store_page with no links, and
\* a page that reaches the end of store_page with no links adds no URL to
\* the frontier and is marked completed with success, whatever store_page
\* returned; nothing is counted as an error on the way
C24_ParseDegrades ==
    [][\A w \in Workers :
          /\ ParseRaised(w) =>
                /\ pc'[w] = "store"
                /\ links'[w] = << >>
                /\ cur'[w] = cur[w]
                /\ stats' = stats
          /\ (pc[w] = "store" /\ links[w] = << >> /\ pc'[w] # "store") =>
                /\ pc'[w] = "mark"
                /\ mark_ok'[w] = "success"
                /\ appended' = appended
                /\ seen_urls' = seen_urls
                /\ stats' = stats
          /\ (pc[w] = "mark" /\ mark_ok[w] = "success" /\ pc'[w] # "mark") =>
                marks'[cur[w].url] = Append(marks[cur[w].url], TRUE)]_vars

\* C24 witness: a worker is about to mark success a page above the depth
\* limit, the page was stored, and a link of the page has never been
\* added to the frontier: its parse raised
C24_Witness ==
    \E w \in Workers :
        /\ pc[w] = "mark"
        /\ mark_ok[w] = "success"
        /\ cur[w].depth < MaxDepth
        /\ pages_crawled = 1
        /\ pages_stored = 1
        /\ deviations = 1
        /\ \E i \in 1..Len(LinksOf(cur[w].url)) :
               /\ appended[LinksOf(cur[w].url)[i]] = 0
               /\ LinksOf(cur[w].url)[i] \notin seen_urls

\* the step of worker w in which store_page returns False
StoreFailed(w) ==
    /\ pc[w] = "store"
    /\ pc'[w] # "store"
    /\ deviations' = deviations + 1

\* C25: when store_page returns False, pages_stored stays as it is, nothing
\* is counted as an error, the crawl keeps running and the worker goes on
\* with the links of the page and with mark_completed(success); from there
\* it comes back to the head of its loop, it does not leave it
C25_StoreFailureGoesOn ==
    [][\A w \in Workers :
          /\ StoreFailed(w) =>
                /\ pages_stored' = pages_stored
                /\ stats' = stats
                /\ is_running' = is_running
                /\ pc'[w] \in {"persist", "mark"}
                /\ pc'[w] = "mark" => mark_ok'[w] = "success"
          /\ pc[w] \in {"store", "persist", "mark"} =>
                pc'[w] \in {"store", "persist", "mark", "top"}]_vars

\* C25 witness: the first page was marked success without being stored, and
\* the crawl has since fetched a second page and is storing it
C25_Witness ==
    /\ deviations = 1
    /\ pages_crawled = 2
    /\ pages_stored = 0
    /\ \E u \in URL : marks[u] = <<TRUE>>
    /\ \E w \in Workers :
          /\ pc[w] = "store"
          /\ \A v \in Workers \ {w} : pc[v] \in {"top", "sleep", "done"}

(***************************************************************************)
(* The metadata table of the storage.                                      *)
(***************************************************************************)
\* the step in which the INSERT OR REPLACE of worker w's call commits
Inserted(w) == store_pc[w] = "insert" /\ store_pc'[w] = "links"

\* C26: the crawled_pages table never holds two rows with the same url, and
\* the INSERT OR REPLACE of a store_page call leaves, for its url, the one
\* row with the values of that call, and the rows of the other URLs as they
\* were
C26_UpsertByUrl ==
    /\ [](\A i, j \in 1..Len(rows) : rows[i].url = rows[j].url => i = j)
    /\ [][\A w \in Workers :
            Inserted(w) =>
              /\ RowsOf(rows', call[w].url) =
                    <<[url |-> call[w].url,
                       content_hash |-> HashContent(call[w].content),
                       content_file_path |-> call[w].path]>>
              /\ \A u \in URL \ {call[w].url} :
                    RowsOf(rows', u) = RowsOf(rows, u)]_vars

\* C26 witness: a1 was stored with its content file and stored again as a
\* duplicate of itself; its one row holds the empty path of the second store
C26_Witness ==
    /\ Len(store_log) >= 2
    /\ store_log[1].url = "a1" /\ store_log[1].ok
    /\ store_log[1].path = ContentPath("a1")
    /\ store_log[2].url = "a1" /\ store_log[2].ok
    /\ store_log[2].path = NoPath
    /\ RowsOf(rows, "a1") =
          <<[url |-> "a1", content_hash |-> HashContent(BodyOf("a1")),
             content_file_path |-> NoPath]>>

(***************************************************************************)
(* Properties of the URL shortener.                                        *)
(***************************************************************************)
\* the answers to the shorten requests
Shortened == {i \in 1..Len(responses) : responses[i].op = "shorten"}

\* C27: of the shorten requests sent one after the other, those with the
\* same original URL are answered 200 with the same short code, and the
\* table holds at most one mapping for each original URL
C27_ShortenDedup ==
    /\ \A i, j \in Shortened :
          responses[i].arg = responses[j].arg
          => /\ responses[i].status = 200
             /\ responses[i].short_url = responses[j].short_url
    /\ \A original_url \in OriginalURL :
          Len(ByOriginalUrl(original_url)) <= 1

\* C27 witness: a URL was shortened twice: the first request created the
\* mapping, the second was answered from it
C27_Witness ==
    \E i, j \in Shortened :
        /\ i < j
        /\ responses[i].arg = responses[j].arg
        /\ responses[i].id # 0
        /\ responses[j].id = 0
        /\ responses[j].short_url = encode(responses[i].id)

\* the IDs generate_id has returned: those recorded in the answers and
\* those in the hands of a handler
IssuedIds ==
    [x \in {<<"response", i>> : i \in {k \in 1..Len(responses) :
                                          responses[k].id # 0}}
          \cup {<<"handler", t>> : t \in {v \in Threads :
                                            req[v].pc = "store"}}
       |-> IF x[1] = "response" THEN responses[x[2]].id ELSE req[x[2]].id]

\* C28: the IDs returned by generate_id, to whatever threads in whatever
\* interleaving, are positive and pairwise distinct; every shorten request
\* is answered 200, the short codes in the table are pairwise distinct, and
\* requests for distinct URLs are answered with distinct codes
C28_UniqueIds ==
    /\ LET issued == IssuedIds IN
       /\ \A x \in DOMAIN issued : issued[x] > 0
       /\ \A x, y \in DOMAIN issued : issued[x] = issued[y] => x = y
    /\ \A i \in Shortened : responses[i].status = 200
    /\ \A i, j \in 1..Len(url_mappings) :
          url_mappings[i].short_url = url_mappings[j].short_url => i = j
    /\ \A i, j \in Shortened :
          responses[i].arg # responses[j].arg
          => responses[i].short_url # responses[j].short_url

\* C28 witness: two shorten requests for distinct URLs run at once in the
\* same millisecond: one has its ID, the other is inside generate_id
C28_Witness ==
    \E t, v \in Threads :
        /\ req[t].op = "shorten" /\ req[v].op = "shorten"
        /\ req[t].arg # req[v].arg
        /\ req[t].pc = "store"
        /\ req[v].pc \in {"stamped", "construct"}
        /\ req[v].timestamp = req[t].timestamp

\* C29: decode(encode(n)) = n for every number encoded, and encode(0) is
\* the one character "0"
C29_Base62RoundTrip ==
    /\ b62.pc = "decoded" => b62.decoded = b62.num
    /\ (b62.pc # "idle" /\ b62.num = 0) => b62.encoded = <<"0">>

\* C29 witness: a number of three digits or more has made the round trip
C29_Witness ==
    /\ b62.pc = "decoded"
    /\ b62.num >= BASE * BASE
    /\ Len(b62.encoded) >= 3

\* the answer given in this step
Answer == responses'[Len(responses')]

\* the click counts of the rows that exist, by short code
ClickCounts(mappings) ==
    [code \in {mappings[i].short_url : i \in 1..Len(mappings)} |->
        LET found == SelectSeq(mappings, LAMBDA r : r.short_url = code) IN
        found[1].click_count]

StoreQuiet == \A w \in Workers : store_pc[w] = "idle"

\* C31: after any sequence of store_page calls in which nothing failed,
\* every content_hash of a record is the hash of a content file that some
\* record with that hash names in its non-empty content_file_path
C31_DedupKeepsContent ==
    (StoreQuiet /\ deviations = 0) =>
        \A i \in 1..Len(rows) :
            \E j \in 1..Len(rows), u \in URL :
                /\ rows[j].content_hash = rows[i].content_hash
                /\ rows[j].content_file_path = ContentPath(u)
                /\ HashContent(files[u]) = rows[i].content_hash

\* C32: when crawl() has returned with the page budget not reached (and
\* stop() not called, every answer the plain one), every queue is empty and
\* every URL admitted in the run has the status success or failed
C32_NothingLeftBehind ==
    (ScenarioDone /\ pages_crawled < max_pages) =>
        /\ \A d \in Domain : domain_queues[d] = << >>
        /\ \A u \in seen_urls : db[u].status \in {"success", "failed"}

\* C33: whatever the workers' add_url and get_next_url calls have done so
\* far, total_urls is the sum of the lengths of the domain queues and is
\* not negative, so that is_empty() holds exactly when every queue is empty
C33_SizeBookkeeping ==
    /\ total_urls = SumOver([d \in Domain |-> Len(domain_queues[d])], Domain)
    /\ total_urls >= 0
    /\ IsEmpty <=> \A d \in Domain : domain_queues[d] = << >>

\* C33 witness: one worker is suspended inside add_url after its append,
\* another inside get_next_url after its popleft, and a URL is queued
C33_Witness ==
    /\ \E w, v \in Workers : pc[w] = "persist" /\ pc[v] = "gn_update"
    /\ total_urls >= 1

\* no fetch call is in flight
FetchQuiet == \A w \in Workers : fcall[w].pc \in {"idle", "done"}

\* C34: whenever no fetch is in flight, every request counted in
\* total_requests is counted in successful_requests or in failed_requests
C34_FetcherCounters ==
    FetchQuiet =>
        fetcher.total_requests =
            fetcher.successful_requests + fetcher.failed_requests

\* C35: in every state of a crawl, pages_stored is at most pages_crawled,
\* and pages_crawled is at most the number of URLs get_next_url has
\* returned so far
C35_CountersOrdered ==
    /\ pages_stored <= pages_crawled
    /\ pages_crawled <= Attempted

\* C35 witness: a page was stored, a second was fetched and its store
\* failed, and a third URL was handed out
C35_Witness ==
    /\ 1 <= pages_stored
    /\ pages_stored < pages_crawled
    /\ pages_crawled < Attempted

(***************************************************************************)
(* Normalisation of URL strings.                                           *)
(***************************************************************************)
\* C36: a URL normalised twice is the URL normalised once, also when its
\* path ends in more than one slash
C36_NormalizeIdempotent ==
    norm.pc = "twice" => norm.twice = norm.once

(***************************************************************************)
(* crawl() called again.                                                   *)
(***************************************************************************)
\* a crawl() call has set out and has not returned
CrawlInProgress == \E c \in Calls : crawls[c] = "gather"

\* C37: a crawl() call made while another call is in progress is refused
\* with the error and changes neither the frontier, nor the workers, nor
\* the flag; and when no call is in progress the flag is false
C37_NotReentrant ==
    /\ [](~CrawlInProgress => ~is_running)
    /\ [][\A c \in Calls :
            (crawls[c] = "none" /\ crawls'[c] # "none" /\ CrawlInProgress)
            => /\ crawls'[c] = "refused"
               /\ UNCHANGED <<seen_urls, domain_queues, total_urls, pool,
                              is_running>>]_vars

(***************************************************************************)
(* SnowflakeGenerator.generate_id called by several threads, on a clock    *)
(* that may be set back.  The whole body runs under self.lock; a step is   *)
(* the code between two readings of the clock.                             *)
(***************************************************************************)
snowRest == <<clock, frontierVars, cache, robotsVars, fetchVars, crawlerVars,
              workerVars, storageVars, obsVars, envVars, apiVars, configVars,
              shortVars, norm, crawls, pool, kafkaVars, notifyVars>>

InitSnow ==
    /\ InitCrawler
    /\ respect_robots_txt = TRUE
    /\ max_pages = MaxPages
    /\ InitShortener(NewGenerator)
    /\ InitParserCalls
    /\ \E ids \in GeneratorIds :
         \E g \in {NewSnowflake(ids[1], ids[2]),
                   BusySnowflake(ids[1], ids[2])} :
            InitSnowflake(g)
    /\ InitKafka
    /\ InitNotify

\* the calls of the run: returned, raised and in progress
SnowCalls ==
    Len(generated_ids) - Len(EarlierIds(snowflake)) + clock_errors
    + Cardinality({t \in Threads : snow_call[t].pc # "idle"})

\* time passes
TimePasses ==
    /\ time_ms < LastMs
    /\ time_ms' = time_ms + 1
    /\ UNCHANGED <<snowflake, snow_call, generated_ids, clock_errors,
                   snowRest>>

\* the system clock is set back (an NTP step)
TimeSetBack ==
    /\ time_ms > 0
    /\ time_ms' = time_ms - 1
    /\ UNCHANGED <<snowflake, snow_call, generated_ids, clock_errors,
                   snowRest>>

\* `if timestamp < self.last_timestamp`
ClockMovedBackwards(timestamp, last_timestamp) == timestamp < last_timestamp

\* a wait that ends at once
WaitSkipped(timestamp, last_timestamp) == TRUE

\* the loop condition of _wait_for_next_millisecond, negated
NextMillisecond(timestamp, last_timestamp) == timestamp > last_timestamp

\* the thread leaves generate_id and the `with self.lock` block
SnowLeave(t, g) ==
    /\ snowflake' = [g EXCEPT !.lock = 0]
    /\ snow_call' = [snow_call EXCEPT ![t] = NoSnowCall]

\* generate_id: `with self.lock`, timestamp = self._current_timestamp()
SnowAcquire(t) ==
    /\ snow_call[t].pc = "idle"
    /\ SnowCalls < MaxGenerated
    /\ snowflake.lock = 0
    /\ snowflake' = [snowflake EXCEPT !.lock = t]
    /\ snow_call' = [snow_call EXCEPT ![t] =
                         [pc |-> "locked", timestamp |-> time_ms]]
    /\ UNCHANGED <<time_ms, generated_ids, clock_errors, snowRest>>

\* generate_id: the clock check, which raises, and the sequence
SnowSequence(t) ==
    /\ snow_call[t].pc = "locked"
    /\ LET timestamp == snow_call[t].timestamp IN
       IF ClockMovedBackwards(timestamp, snowflake.last_timestamp)
       THEN /\ SnowLeave(t, snowflake)
            /\ clock_errors' = clock_errors + 1
       ELSE /\ clock_errors' = clock_errors
            /\ IF timestamp = snowflake.last_timestamp
               THEN LET sequence == (snowflake.sequence + 1)
                                    % (MAX_SEQUENCE + 1) IN
                    /\ snowflake' = [snowflake EXCEPT !.sequence = sequence]
                    /\ snow_call' = [snow_call EXCEPT ![t].pc =
                                       IF sequence = 0 THEN "wait"
                                                       ELSE "stamped"]
               ELSE /\ snowflake' = [snowflake EXCEPT !.sequence = 0]
                    /\ snow_call' = [snow_call EXCEPT ![t].pc = "stamped"]
    /\ UNCHANGED <<time_ms, generated_ids, snowRest>>

\* _wait_for_next_millisecond: a reading of the clock that ends the loop
SnowWait(t) ==
    /\ snow_call[t].pc = "wait"
    /\ NextMillisecond(time_ms, snowflake.last_timestamp)
    /\ snow_call' = [snow_call EXCEPT ![t] =
                         [pc |-> "stamped", timestamp |-> time_ms]]
    /\ UNCHANGED <<snowflake, time_ms, generated_ids, clock_errors,
                   snowRest>>

\* generate_id: last_timestamp, the ID, the return
SnowReturn(t) ==
    /\ snow_call[t].pc = "stamped"
    /\ LET timestamp == snow_call[t].timestamp
           snowflake_id == SnowflakeId(timestamp, snowflake.datacenter_id,
                                       snowflake.machine_id,
                                       snowflake.sequence) IN
       /\ SnowLeave(t, [snowflake EXCEPT !.last_timestamp = timestamp])
       /\ generated_ids' = Append(generated_ids, snowflake_id)
    /\ UNCHANGED <<time_ms, clock_errors, snowRest>>

NextSnow ==
    \/ TimePasses
    \/ TimeSetBack
    \/ \E t \in Threads : SnowAcquire(t)
    \/ \E t \in Threads : SnowSequence(t)
    \/ \E t \in Threads : SnowWait(t)
    \/ \E t \in Threads : SnowReturn(t)

SpecSnow == InitSnow /\ [][NextSnow]_vars

\* C38: whatever the threads and the clock do, the IDs one generator returns
\* are strictly increasing in the order of their return (also from sequence
\* MAX_SEQUENCE to the next millisecond, and also when the clock was set
\* back in between), every ID parses back to the datacenter_id and the
\* machine_id of the generator, and a call that reads a clock earlier than
\* last_timestamp raises, returns no ID and leaves last_timestamp and
\* sequence as they were.
C38_SnowflakeOrdered ==
    /\ [](/\ \A i \in 1..Len(generated_ids) : \A j \in 1..Len(generated_ids) :
               i < j => generated_ids[i] < generated_ids[j]
          /\ \A i \in 1..Len(generated_ids) :
               LET parsed == parse_id(generated_ids[i]) IN
               /\ parsed.datacenter_id = snowflake.datacenter_id
               /\ parsed.machine_id = snowflake.machine_id)
    /\ [][\A t \in Threads :
            (/\ snow_call[t].pc = "locked"
             /\ snow_call[t].timestamp < snowflake.last_timestamp
             /\ snow_call'[t] # snow_call[t])
            => /\ clock_errors' = clock_errors + 1
               /\ snow_call'[t].pc = "idle"
               /\ generated_ids' = generated_ids
               /\ snowflake'.last_timestamp = snowflake.last_timestamp
               /\ snowflake'.sequence = snowflake.sequence]_vars

\* a run in which the sequence overflowed into the next millisecond and a
\* later call, made after the clock was set back, raised
C38_Witness ==
    /\ clock_errors >= 1
    /\ \E i \in 1..(Len(generated_ids) - 1) :
         LET a == parse_id(generated_ids[i])
             b == parse_id(generated_ids[i + 1]) IN
         /\ a.sequence = MAX_SEQUENCE
         /\ b.sequence = 0
         /\ b.timestamp > a.timestamp

(***************************************************************************)
(* KafkaNotificationConsumer.consume_messages around any handler.  The     *)
(* iterator of a KafkaConsumer hands out the message at its position and   *)
(* moves the position past it; commit() without arguments commits the      *)
(* position, the offset after the last message handed out.                 *)
(***************************************************************************)
kafkaRest == <<clock, frontierVars, cache, robotsVars, fetchVars, crawlerVars,
               workerVars, storageVars, obsVars, envVars, apiVars,
               configVars, shortVars, norm, crawls, pool, snowVars,
               notifyVars>>

\* self.consumer.commit()
Commit(c) == [c EXCEPT !.committed = c.position]

\* consume_messages: `for message in self.consumer`
NextMessage ==
    /\ message = None
    /\ consumer.position < MaxMessages
    /\ message' = consumer.position
    /\ consumer' = [consumer EXCEPT !.position = consumer.position + 1]
    /\ UNCHANGED <<handler_log, consumers_started, kafkaRest>>

\* consume_messages: the body of the loop for one message
HandleMessage ==
    /\ message # None
    /\ \E outcome \in HandlerOutcomes :
         /\ handler_log' = [handler_log EXCEPT ![message] = @ \cup {outcome}]
         /\ consumer' = IF outcome = "true" THEN Commit(consumer)
                        ELSE consumer
    /\ message' = None
    /\ UNCHANGED <<consumers_started, kafkaRest>>

\* the worker process ends, anywhere in the loop, and is started again:
\* BaseNotificationWorker.start makes a new KafkaNotificationConsumer
RestartConsumer ==
    /\ consumers_started < MaxConsumers
    /\ consumers_started' = consumers_started + 1
    /\ consumer' = Connect(consumer.committed)
    /\ message' = None
    /\ UNCHANGED <<handler_log, kafkaRest>>

NextKafka == NextMessage \/ HandleMessage \/ RestartConsumer

SpecKafka == Init /\ [][NextKafka]_vars

\* C39: every message whose offset is committed (every message below the
\* group's committed offset, the messages a later consumer of the group
\* will not be given) has been handled with the result true: the offset of
\* a message whose handler returned false or raised is not committed, also
\* not by the commit made after a later message, before the message has
\* been handled successfully.
C39_CommitsOnlyProcessed ==
    \A o \in Offsets :
        o < consumer.committed => "true" \in handler_log[o]

(***************************************************************************)
(* BaseNotificationWorker.process_message on the messages of its topic.    *)
(* The consumer's loop hands it one message at a time and asyncio.run      *)
(* returns before the next, so a call is one step.                         *)
(***************************************************************************)
notifyRest == <<clock, frontierVars, cache, robotsVars, fetchVars,
                crawlerVars, workerVars, storageVars, obsVars, envVars,
                apiVars, configVars, shortVars, norm, crawls, pool, snowVars,
                kafkaVars>>

\* NotificationService._create_notification_record
CreateNotification(n) ==
    /\ notifications[n] = NoNotification
    /\ notifications' = [notifications EXCEPT ![n] = NewNotification]
    /\ UNCHANGED <<last_handled, notifyRest>>

\* process_message(message_data) for a message of a created notification
ProcessMessage ==
    /\ \E m \in Messages : \E w \in Worlds :
         /\ notifications[m.notification_id] # NoNotification
         /\ LET out == ProcessMessageAsync(notifications, m, w) IN
            /\ notifications' = out.table
            /\ last_handled' = [message |-> m, world |-> w,
                                result |-> out.result]
    /\ UNCHANGED notifyRest

NextNotify ==
    \/ \E n \in NotificationIds : CreateNotification(n)
    \/ ProcessMessage

SpecNotify == Init /\ [][NextNotify]_vars

\* the latest call of the handler met an exception outside _get_user and
\* the status updates, which catch their own
UnexpectedException ==
    LET w == last_handled.world IN
    /\ w.user = "found"
    /\ w.recipient = "present"
    /\ \/ w.validate = "raises"
       \/ w.validate = "valid" /\ w.send = "raises"

\* C40: after the handler has returned true for a message, the status of
\* the notification is sent, failed or retrying; it is retrying only if the
\* provider's send failed with a retry_after and the message's retry_count
\* was below its max_retries, and the stored retry_count is then the
\* message's retry_count plus one and at most max_retries; a missing user,
\* a missing recipient, an invalid recipient and exhausted retries leave
\* the status failed; the handler returns false only after an unexpected
\* exception.
C40_WorkerOutcome ==
    LET m == last_handled.message
        w == last_handled.world
        row == notifications[m.notification_id] IN
    last_handled # NoHandled =>
        /\ last_handled.result =>
             /\ row.status \in {"sent", "failed", "retrying"}
             /\ row.status = "retrying" =>
                  /\ w.send = "retry_after"
                  /\ m.retry_count < m.max_retries
                  /\ row.retry_count = m.retry_count + 1
                  /\ row.retry_count <= m.max_retries
             /\ (\/ w.user = "missing"
                 \/ w.recipient = "absent"
                 \/ w.validate = "invalid"
                 \/ (w.send \in {"retry_after", "no_retry"}
                     /\ m.retry_count >= m.max_retries))
                => row.status = "failed"
        /\ ~last_handled.result => UnexpectedException
====
